---------------------------- MODULE Spec2Model ----------------------------
(***************************************************************************)
(* A model of zorsh, a schema-driven Borsh codec written in TypeScript.    *)
(*                                                                         *)
(*   binary-io.ts   BinaryWriter / BinaryReader                            *)
(*   registry       TypeRegistry and the handlers registered at load time  *)
(*   schema.ts      Schema.serialize / Schema.deserialize and the builder b*)
(*                                                                         *)
(* JavaScript values are modelled as tagged records (field k is the kind): *)
(*   "number"   an integer-valued number,   neg/mag (base-256 magnitude,   *)
(*              least significant digit first, no leading zero digit)      *)
(*   "bigint"   a BigInt,                   neg/mag                        *)
(*   "double"   a number given by its IEEE-754 binary64 fields             *)
(*              sign, exp (0..2047), frac (52 bits, most significant first)*)
(*   "string"   cps: its code points                                       *)
(*   "null", "undefined", "boolean", "object" (props: ordered name/val),   *)
(*   "Array", "Uint8Array", ... (items), "Set" (items), "Map" (entries)    *)
(* TLC integers are 32 bits wide, so 64- and 128-bit quantities are kept   *)
(* as digit sequences and the arithmetic on them is written out.           *)
(***************************************************************************)
EXTENDS Integers, Sequences, FiniteSets, TLC

VARIABLES
    handlers,   \* TypeRegistry.handlers: tag -> handler ("" when absent)
    op,         \* the operation performed last
    schema,     \* the Schema the last serialize/deserialize ran on
    value,      \* the argument of the last serialize
    writer,     \* the BinaryWriter of the last serialize / write
    thrown,     \* message of the Error the last operation threw, "" if none
    bytes,      \* what the last serialize returned (getBuffer), or the input of deserialize
    reader,     \* the BinaryReader of the last deserialize / read
    decoded,    \* what the last deserialize / getHandler returned
    arg         \* the argument of the last BinaryWriter / TypeRegistry call

vars == <<handlers, op, schema, value, writer, thrown, bytes, reader, decoded, arg>>

-----------------------------------------------------------------------------
(* Sequences.                                                              *)

RECURSIVE Concat(_)
Concat(ss) ==
    IF ss = <<>> THEN <<>>
    ELSE IF Len(ss) = 1 THEN ss[1]
    ELSE Concat(SubSeq(ss, 1, Len(ss) \div 2)) \o Concat(SubSeq(ss, (Len(ss) \div 2) + 1, Len(ss)))

Reverse(s) == [i \in 1..Len(s) |-> s[Len(s) + 1 - i]]

Zeros(n) == [i \in 1..n |-> 0]

Take(s, n) == SubSeq(s, 1, IF n < Len(s) THEN n ELSE Len(s))

Drop(s, n) == SubSeq(s, n + 1, Len(s))

Range(s) == {s[i] : i \in 1..Len(s)}

-----------------------------------------------------------------------------
(* Arbitrary-precision integers: magnitudes are base-256 digit sequences,  *)
(* least significant first.                                                *)

RECURSIVE Norm(_)
Norm(m) == IF m # <<>> /\ m[Len(m)] = 0 THEN Norm(SubSeq(m, 1, Len(m) - 1)) ELSE m

Digit(m, i) == IF i <= Len(m) THEN m[i] ELSE 0

RECURSIVE CmpFrom(_, _, _)
CmpFrom(a, b, i) ==
    IF i = 0 THEN 0
    ELSE IF Digit(a, i) < Digit(b, i) THEN -1
    ELSE IF Digit(a, i) > Digit(b, i) THEN 1
    ELSE CmpFrom(a, b, i - 1)

\* -1, 0, 1 as |a| <, =, > |b|
CmpMag(a, b) == CmpFrom(a, b, IF Len(a) > Len(b) THEN Len(a) ELSE Len(b))

RECURSIVE AddCarry(_, _, _, _)
AddCarry(a, b, i, c) ==
    IF i > Len(a) /\ i > Len(b)
    THEN (IF c = 0 THEN <<>> ELSE <<c>>)
    ELSE LET t == Digit(a, i) + Digit(b, i) + c
         IN  <<t % 256>> \o AddCarry(a, b, i + 1, t \div 256)

AddMag(a, b) == Norm(AddCarry(a, b, 1, 0))

RECURSIVE SubBorrow(_, _, _, _)
SubBorrow(a, b, i, c) ==
    IF i > Len(a) THEN <<>>
    ELSE LET t == Digit(a, i) - Digit(b, i) - c
         IN  <<(t + 256) % 256>> \o SubBorrow(a, b, i + 1, IF t < 0 THEN 1 ELSE 0)

\* |a| - |b| for |a| >= |b|
SubMag(a, b) == Norm(SubBorrow(a, b, 1, 0))

RECURSIVE MulCarry(_, _, _, _)
MulCarry(a, k, i, c) ==
    IF i > Len(a)
    THEN (IF c = 0 THEN <<>> ELSE <<c % 256>> \o MulCarry(a, k, i, c \div 256))
    ELSE LET t == (a[i] * k) + c
         IN  <<t % 256>> \o MulCarry(a, k, i + 1, t \div 256)

MulSmall(a, k) == Norm(MulCarry(a, k, 1, 0))

RECURSIVE DecFrom(_, _, _)
\* the decimal digits ds[i..] appended to the magnitude acc
DecFrom(ds, i, acc) ==
    IF Len(acc) >= 0 /\ i > Len(ds) THEN acc
    ELSE DecFrom(ds, i + 1, AddMag(MulSmall(acc, 10), Norm(<<ds[i]>>)))

\* the magnitude written by the decimal digits ds (most significant first)
DecMag(ds) == DecFrom(ds, 1, <<>>)

\* 2^(8n)
Pow256(n) == Zeros(n) \o <<1>>

MkInt(kind, neg, mag) ==
    LET m == Norm(mag) IN [k |-> kind, neg |-> (neg /\ m # <<>>), mag |-> m]

\* the number / bigint literal with decimal digits ds
Num(ds) == MkInt("number", FALSE, DecMag(ds))
NegNum(ds) == MkInt("number", TRUE, DecMag(ds))
Big(ds) == MkInt("bigint", FALSE, DecMag(ds))
NegBig(ds) == MkInt("bigint", TRUE, DecMag(ds))

IsInt(v) == v.k \in {"number", "bigint"}

\* x < y, x > y on integers
IntLt(x, y) ==
    IF x.neg /\ ~y.neg THEN TRUE
    ELSE IF ~x.neg /\ y.neg THEN FALSE
    ELSE IF x.neg THEN CmpMag(x.mag, y.mag) = 1
    ELSE CmpMag(x.mag, y.mag) = -1

IntGt(x, y) == IntLt(y, x)

\* x + y on integers of kind x.k
IntAdd(x, y) ==
    IF x.neg = y.neg THEN MkInt(x.k, x.neg, AddMag(x.mag, y.mag))
    ELSE IF CmpMag(x.mag, y.mag) >= 0 THEN MkInt(x.k, x.neg, SubMag(x.mag, y.mag))
    ELSE MkInt(x.k, y.neg, SubMag(y.mag, x.mag))

IntNeg(x) == MkInt(x.k, ~x.neg, x.mag)

-----------------------------------------------------------------------------
(* Bits and IEEE-754 binary64 numbers.                                     *)

RECURSIVE BitsOf(_, _)
\* n as w bits, most significant first
BitsOf(n, w) == IF w = 0 THEN <<>> ELSE BitsOf(n \div 2, w - 1) \o <<n % 2>>

RECURSIVE BitsVal(_)
\* the number a short bit sequence (most significant first) writes
BitsVal(bs) ==
    IF bs = <<>> THEN 0 ELSE (2 * BitsVal(SubSeq(bs, 1, Len(bs) - 1))) + bs[Len(bs)]

\* eight bits per byte, most significant byte first; Len(bs) a multiple of 8
BitsToBytesBE(bs) == [i \in 1..(Len(bs) \div 8) |-> BitsVal(SubSeq(bs, 8 * i - 7, 8 * i))]

BytesToBitsBE(bs) == Concat([i \in 1..Len(bs) |-> BitsOf(bs[i], 8)])

\* the magnitude whose binary digits (most significant first) are bs
BitsToMag(bs) ==
    LET pad == (8 - (Len(bs) % 8)) % 8
    IN  Norm(Reverse(BitsToBytesBE(Zeros(pad) \o bs)))

RECURSIVE StripZeros(_)
StripZeros(bs) == IF bs # <<>> /\ bs[1] = 0 THEN StripZeros(Tail(bs)) ELSE bs

\* the binary digits of a magnitude, most significant first, no leading zero
MagToBits(m) == StripZeros(BytesToBitsBE(Reverse(m)))

AllZero(bs) == \A i \in 1..Len(bs) : bs[i] = 0

Double(sign, exp, frac) == [k |-> "double", sign |-> sign, exp |-> exp, frac |-> frac]

\* the one NaN value of the language
NaN == Double(0, 2047, <<1>> \o Zeros(51))
PosInfinity == Double(0, 2047, Zeros(52))
NegInfinity == Double(1, 2047, Zeros(52))
NegZero == Double(1, 0, Zeros(52))

IsNaNDouble(d) == d.exp = 2047 /\ ~AllZero(d.frac)
IsInfDouble(d) == d.exp = 2047 /\ AllZero(d.frac)
IsZeroDouble(d) == d.exp = 0 /\ AllZero(d.frac)

\* Number.isInteger on a double
IsIntegerDouble(d) ==
    LET e == d.exp - 1023
    IN  \/ IsZeroDouble(d)
        \/ /\ d.exp # 2047
           /\ d.exp # 0
           /\ e >= 0
           /\ (e >= 52 \/ AllZero(SubSeq(d.frac, e + 1, 52)))

\* the integer part of a finite double, rounded toward zero, as a number
TruncDouble(d) ==
    LET e == d.exp - 1023
    IN  IF d.exp = 2047 \/ d.exp = 0 \/ e < 0 THEN MkInt("number", FALSE, <<>>)
        ELSE MkInt("number", d.sign = 1,
                   BitsToMag(<<1>> \o SubSeq(d.frac, 1, IF e < 52 THEN e ELSE 52)
                                  \o Zeros(IF e > 52 THEN e - 52 ELSE 0)))

\* the double equal to an integer-valued number
IntToDouble(v) ==
    LET bs == MagToBits(v.mag)
    IN  IF bs = <<>> THEN Double(0, 0, Zeros(52))
        ELSE Double(IF v.neg THEN 1 ELSE 0, 1023 + Len(bs) - 1,
                    Take(Tail(bs) \o Zeros(52), 52))

\* A number has one representation: an integer-valued number other than -0
\* is kept as "number", every NaN is the one NaN.
CanonNumber(d) ==
    IF IsNaNDouble(d) THEN NaN
    ELSE IF IsIntegerDouble(d) /\ ~(IsZeroDouble(d) /\ d.sign = 1) THEN TruncDouble(d)
    ELSE d

IsNumeric(v) == v.k \in {"number", "bigint", "double"}

\* Number.isNaN(value)
NumberIsNaN(v) == v.k = "double" /\ IsNaNDouble(v)

\* Number.isInteger(value): false for a BigInt and for anything not a number
NumberIsInteger(v) == v.k = "number" \/ (v.k = "double" /\ IsIntegerDouble(v))

\* value < n and value > n for an integer n, as the relational operators
\* compare a number or BigInt with it (NaN compares false)
Less(v, n) ==
    IF IsInt(v) THEN IntLt(v, n)
    ELSE IF v.k # "double" \/ IsNaNDouble(v) THEN FALSE
    ELSE IF IsInfDouble(v) THEN v.sign = 1
    ELSE LET t == TruncDouble(v)
         IN  IntLt(t, n) \/ (t.neg = n.neg /\ t.mag = n.mag
                             /\ ~IsIntegerDouble(v) /\ v.sign = 1)

Greater(v, n) ==
    IF IsInt(v) THEN IntGt(v, n)
    ELSE IF v.k # "double" \/ IsNaNDouble(v) THEN FALSE
    ELSE IF IsInfDouble(v) THEN v.sign = 0
    ELSE LET t == TruncDouble(v)
         IN  IntGt(t, n) \/ (t.neg = n.neg /\ t.mag = n.mag
                             /\ ~IsIntegerDouble(v) /\ v.sign = 0)

\* the n low base-256 digits of v modulo 256^n (two's complement of a negative v)
ModBytes(v, n) ==
    LET low == [i \in 1..n |-> Digit(v.mag, i)]
    IN  IF ~v.neg \/ AllZero(low) THEN low
        ELSE Take(SubBorrow(Pow256(n), low, 1, 0), n)

\* ToUint8/ToInt16/... of a number: NaN and the infinities give 0, the rest is
\* truncated; the result is taken modulo 256^n
NumberToBytes(v, n) ==
    IF v.k = "number" THEN ModBytes(v, n) ELSE ModBytes(TruncDouble(v), n)

\* the unsigned and the two's complement reading of n bytes, least significant first
UnsignedOf(kind, bs) == MkInt(kind, FALSE, bs)

SignedOf(kind, bs) ==
    IF bs[Len(bs)] >= 128
    THEN MkInt(kind, TRUE, Take(SubBorrow(Pow256(Len(bs)), bs, 1, 0), Len(bs)))
    ELSE MkInt(kind, FALSE, bs)

\* the 8 bytes of a binary64 value, least significant first
DoubleToBytes(d) == Reverse(BitsToBytesBE(<<d.sign>> \o BitsOf(d.exp, 11) \o d.frac))

BytesToDouble(bs) ==
    LET bits == BytesToBitsBE(Reverse(bs))
    IN  Double(bits[1], BitsVal(SubSeq(bits, 2, 12)), SubSeq(bits, 13, 64))

-----------------------------------------------------------------------------
(* binary-io.ts: BinaryWriter.  A writer is [buffer, offset, err]: buffer  *)
(* is the whole Uint8Array (its length is the capacity), err the message   *)
(* of the exception that ended the call in progress ("" while none has).   *)

null == [k |-> "null"]
undefined == [k |-> "undefined"]

DefaultInitialSize == 1024

RangeErrorMsg == "RangeError: Offset is outside the bounds of the DataView"
ToNumberErrorMsg == "TypeError: Cannot convert a BigInt value to a number"
ToBigIntErrorMsg == "TypeError: Cannot convert value to a BigInt"
DivergesMsg == "<ensureCapacity does not return>"

\* constructor(initialSize = 1024)
NewWriter(initialSize) == [buffer |-> Zeros(initialSize), offset |-> 0, err |-> ""]

Throw(w, msg) == IF w.err # "" THEN w ELSE [w EXCEPT !.err = msg]

RECURSIVE DoubleUntil(_, _)
\* while (newSize < requiredSize) newSize *= 2;  -1 when the loop never ends
DoubleUntil(newSize, requiredSize) ==
    IF newSize >= requiredSize THEN newSize
    ELSE IF newSize = 0 THEN -1
    ELSE DoubleUntil(newSize * 2, requiredSize)

\* an ensureCapacity that allocates the larger buffer and does not copy
ensureCapacity_no_copy(w, additionalBytes) ==
    LET requiredSize == w.offset + additionalBytes
        newSize == DoubleUntil(Len(w.buffer), requiredSize)
    IN  IF w.err # "" \/ requiredSize <= Len(w.buffer) THEN w
        ELSE IF newSize = -1 THEN Throw(w, DivergesMsg)
        ELSE [w EXCEPT !.buffer = Zeros(newSize)]

ensureCapacity(w, additionalBytes) ==
    LET requiredSize == w.offset + additionalBytes
        newSize == DoubleUntil(Len(w.buffer), requiredSize)
    IN  IF w.err # "" \/ requiredSize <= Len(w.buffer) THEN w
        ELSE IF newSize = -1 THEN Throw(w, DivergesMsg)
        ELSE [w EXCEPT !.buffer = w.buffer \o Zeros(newSize - Len(w.buffer))]

\* the DataView setters and Uint8Array.set: store bs at the offset
StoreAt(w, bs) ==
    [w EXCEPT !.buffer = SubSeq(w.buffer, 1, w.offset) \o bs
                         \o SubSeq(w.buffer, w.offset + Len(bs) + 1, Len(w.buffer))]

Advance(w, n) == [w EXCEPT !.offset = w.offset + n]

\* ToNumber(value) as the DataView setters apply it.  The values that reach
\* a setter in the model are numbers, BigInts (a TypeError, raised by the
\* callers below), booleans, null and undefined.
ToNumber(val) ==
    CASE val.k \in {"number", "double"} -> val
      [] val.k = "null" -> MkInt("number", FALSE, <<>>)
      [] val.k = "boolean" -> MkInt("number", FALSE, IF val.b THEN <<1>> ELSE <<>>)
      [] val.k = "undefined" -> NaN

\* ensureCapacity(n); view.setUintN / setIntN(offset, value, true); offset += n
WriteNumber(w, val, n) ==
    LET w1 == ensureCapacity(w, n)
    IN  IF w1.err # "" THEN w1
        ELSE IF val.k = "bigint" THEN Throw(w1, ToNumberErrorMsg)
        ELSE Advance(StoreAt(w1, NumberToBytes(ToNumber(val), n)), n)

\* ensureCapacity(8); view.setBigUint64 / setBigInt64(offset, value, true); offset += 8
WriteBigInt(w, val) ==
    LET w1 == ensureCapacity(w, 8)
    IN  IF w1.err # "" THEN w1
        ELSE IF val.k = "boolean"
        THEN Advance(StoreAt(w1, ModBytes(MkInt("bigint", FALSE,
                                    IF val.b THEN <<1>> ELSE <<>>), 8)), 8)
        ELSE IF val.k # "bigint" THEN Throw(w1, ToBigIntErrorMsg)
        ELSE Advance(StoreAt(w1, ModBytes(val, 8)), 8)

writeUint8(w, val) == WriteNumber(w, val, 1)
writeUint16(w, val) == WriteNumber(w, val, 2)
writeUint32(w, val) == WriteNumber(w, val, 4)
writeUint64(w, val) == WriteBigInt(w, val)
writeInt8(w, val) == WriteNumber(w, val, 1)
writeInt16(w, val) == WriteNumber(w, val, 2)
\* a writeInt32 whose setInt32 call lacks the littleEndian argument
writeInt32_big_endian(w, val) ==
    LET w1 == ensureCapacity(w, 4)
    IN  IF w1.err # "" THEN w1
        ELSE IF val.k = "bigint" THEN Throw(w1, ToNumberErrorMsg)
        ELSE Advance(StoreAt(w1, Reverse(NumberToBytes(ToNumber(val), 4))), 4)

writeInt32(w, val) == WriteNumber(w, val, 4)
writeInt64(w, val) == WriteBigInt(w, val)

\* value & BigInt("0xFFFFFFFFFFFFFFFF"): value modulo 2^64
LowLimb(val) == MkInt("bigint", FALSE, ModBytes(val, 8))

\* value >> BigInt(64): floor(value / 2^64)
HighLimb(val) ==
    LET q == Drop(val.mag, 8)
        exact == AllZero(Take(val.mag, 8))
    IN  IF val.neg /\ ~exact THEN MkInt("bigint", TRUE, AddMag(q, <<1>>))
        ELSE MkInt("bigint", val.neg, q)

writeUint128(w, val) ==
    LET w1 == ensureCapacity(w, 16)
    IN  IF w1.err # "" THEN w1
        ELSE IF val.k # "bigint" THEN Throw(w1, ToBigIntErrorMsg)
        ELSE writeUint64(writeUint64(w1, LowLimb(val)), HighLimb(val))

writeInt128(w, val) ==
    LET w1 == ensureCapacity(w, 16)
    IN  IF w1.err # "" THEN w1
        ELSE IF val.k # "bigint" THEN Throw(w1, ToBigIntErrorMsg)
        ELSE writeInt64(writeInt64(w1, LowLimb(val)), HighLimb(val))

\* the binary64 fields of a number
AsDouble(v) == IF v.k = "number" THEN IntToDouble(v) ELSE v

\* the binary32 nearest to a double (ties to even) as 31 bits of exponent
\* and fraction; the sign is kept apart
Float32Magnitude(d) ==
    LET e == d.exp - 1023
        sig == <<1>> \o d.frac
        shift == IF e < -126 THEN (IF -126 - e > 26 THEN 26 ELSE -126 - e) ELSE 0
        bits == Zeros(shift) \o sig
        kept == BitsVal(SubSeq(bits, 1, 24))
        guard == bits[25]
        sticky == ~AllZero(SubSeq(bits, 26, Len(bits)))
        up == IF guard = 1 /\ (sticky \/ kept % 2 = 1) THEN 1 ELSE 0
        expField == IF e < -126 THEN 0 ELSE e + 127
        combined == IF e < -126 THEN kept + up
                    ELSE (expField * 8388608) + (kept - 8388608) + up
    IN  IF IsNaNDouble(d) THEN 2143289344
        ELSE IF IsInfDouble(d) \/ e > 127 THEN 2139095040
        ELSE IF d.exp = 0 THEN 0
        ELSE IF combined > 2139095040 THEN 2139095040
        ELSE combined

\* the 4 bytes of the binary32 value, least significant first
FloatToBytes(d) ==
    LET m == Float32Magnitude(d)
        sign == IF IsNaNDouble(d) THEN 0 ELSE d.sign
    IN  <<m % 256, (m \div 256) % 256, (m \div 65536) % 256,
          (sign * 128) + (m \div 16777216)>>

\* the double equal to the binary32 value in 4 bytes
BytesToFloat(bs) ==
    LET bits == BytesToBitsBE(Reverse(bs))
        sign == bits[1]
        exp8 == BitsVal(SubSeq(bits, 2, 9))
        frac == SubSeq(bits, 10, 32)
        lead == CHOOSE p \in 1..23 : frac[p] = 1 /\ AllZero(SubSeq(frac, 1, p - 1))
    IN  IF exp8 = 255 THEN (IF AllZero(frac) THEN Double(sign, 2047, Zeros(52)) ELSE NaN)
        ELSE IF exp8 = 0 /\ AllZero(frac) THEN Double(sign, 0, Zeros(52))
        ELSE IF exp8 = 0
        THEN Double(sign, 1023 - 126 - lead, SubSeq(frac, lead + 1, 23) \o Zeros(29 + lead))
        ELSE Double(sign, exp8 - 127 + 1023, frac \o Zeros(29))

writeFloat32(w, val) ==
    LET w1 == ensureCapacity(w, 4)
    IN  IF w1.err # "" THEN w1
        ELSE IF val.k = "bigint" THEN Throw(w1, ToNumberErrorMsg)
        ELSE Advance(StoreAt(w1, FloatToBytes(AsDouble(ToNumber(val)))), 4)

writeFloat64(w, val) ==
    LET w1 == ensureCapacity(w, 8)
    IN  IF w1.err # "" THEN w1
        ELSE IF val.k = "bigint" THEN Throw(w1, ToNumberErrorMsg)
        ELSE Advance(StoreAt(w1, DoubleToBytes(AsDouble(ToNumber(val)))), 8)

getBuffer(w) == SubSeq(w.buffer, 1, w.offset)

-----------------------------------------------------------------------------
(* binary-io.ts: BinaryReader.  A reader is [buffer, offset, err]; a read  *)
(* returns [reader, value].                                                *)

NewReader(buffer) == [buffer |-> buffer, offset |-> 0, err |-> ""]

Ret(r, v) == [reader |-> r, value |-> v]

Fail(r, msg) == Ret(IF r.err # "" THEN r ELSE [r EXCEPT !.err = msg], undefined)

\* view.getXxx(offset, true): the n bytes at the offset, or a RangeError
ViewBytes(r, n) == SubSeq(r.buffer, r.offset + 1, r.offset + n)

InBounds(r, n) == r.offset + n <= Len(r.buffer)

ReadUnsigned(r, kind, n) ==
    IF r.err # "" THEN Ret(r, undefined)
    ELSE IF ~InBounds(r, n) THEN Fail(r, RangeErrorMsg)
    ELSE Ret([r EXCEPT !.offset = r.offset + n], UnsignedOf(kind, ViewBytes(r, n)))

ReadSigned(r, kind, n) ==
    IF r.err # "" THEN Ret(r, undefined)
    ELSE IF ~InBounds(r, n) THEN Fail(r, RangeErrorMsg)
    ELSE Ret([r EXCEPT !.offset = r.offset + n], SignedOf(kind, ViewBytes(r, n)))

readUint8(r) == ReadUnsigned(r, "number", 1)
\* a readUint16 that indexes the buffer, where a byte past the end counts as 0
readUint16_unchecked(r) ==
    IF r.err # "" THEN Ret(r, undefined)
    ELSE Ret([r EXCEPT !.offset = r.offset + 2],
             UnsignedOf("number", [i \in 1..2 |-> IF r.offset + i <= Len(r.buffer)
                                                  THEN r.buffer[r.offset + i] ELSE 0]))

readUint16(r) == ReadUnsigned(r, "number", 2)
readUint32(r) == ReadUnsigned(r, "number", 4)
readUint64(r) == ReadUnsigned(r, "bigint", 8)
readInt8(r) == ReadSigned(r, "number", 1)
readInt16(r) == ReadSigned(r, "number", 2)
readInt32(r) == ReadSigned(r, "number", 4)
readInt64(r) == ReadSigned(r, "bigint", 8)

\* (high << BigInt(64)) | low, for 0 <= low < 2^64
ShiftOr(high, low) ==
    IF high.neg THEN MkInt("bigint", TRUE, SubMag(Zeros(8) \o high.mag, low.mag))
    ELSE MkInt("bigint", FALSE, [i \in 1..8 |-> Digit(low.mag, i)] \o high.mag)

readUint128(r) ==
    LET low == readUint64(r)
        high == readUint64(low.reader)
    IN  IF high.reader.err # "" THEN Ret(high.reader, undefined)
        ELSE Ret(high.reader, ShiftOr(high.value, low.value))

\* a readInt128 that reads both limbs as unsigned
readInt128_unsigned_high(r) ==
    LET low == readUint64(r)
        high == readUint64(low.reader)
    IN  IF high.reader.err # "" THEN Ret(high.reader, undefined)
        ELSE Ret(high.reader, ShiftOr(high.value, low.value))

readInt128(r) ==
    LET low == readUint64(r)
        high == readInt64(low.reader)
    IN  IF high.reader.err # "" THEN Ret(high.reader, undefined)
        ELSE Ret(high.reader, ShiftOr(high.value, low.value))

readFloat32(r) ==
    IF r.err # "" THEN Ret(r, undefined)
    ELSE IF ~InBounds(r, 4) THEN Fail(r, RangeErrorMsg)
    ELSE Ret([r EXCEPT !.offset = r.offset + 4], CanonNumber(BytesToFloat(ViewBytes(r, 4))))

readFloat64(r) ==
    IF r.err # "" THEN Ret(r, undefined)
    ELSE IF ~InBounds(r, 8) THEN Fail(r, RangeErrorMsg)
    ELSE Ret([r EXCEPT !.offset = r.offset + 8], CanonNumber(BytesToDouble(ViewBytes(r, 8))))

getOffset(r) == r.offset

-----------------------------------------------------------------------------
(* Strings.  A string is the sequence of its code points; a code point in  *)
(* 55296..57343 stands for a surrogate that has no partner.                *)

Str(cps) == [k |-> "string", cps |-> cps]

ReplacementChar == 65533
ByteOrderMark == 65279

IsSurrogate(cp) == cp >= 55296 /\ cp <= 57343

\* new TextEncoder().encode(value), one code point
EncodeCodePoint(cp) ==
    IF cp < 128 THEN <<cp>>
    ELSE IF cp < 2048 THEN <<192 + (cp \div 64), 128 + (cp % 64)>>
    ELSE IF IsSurrogate(cp) THEN <<239, 191, 189>>
    ELSE IF cp < 65536
    THEN <<224 + (cp \div 4096), 128 + ((cp \div 64) % 64), 128 + (cp % 64)>>
    ELSE <<240 + (cp \div 262144), 128 + ((cp \div 4096) % 64),
           128 + ((cp \div 64) % 64), 128 + (cp % 64)>>

TextEncode(cps) == Concat([i \in 1..Len(cps) |-> EncodeCodePoint(cps[i])])

RECURSIVE Utf8Decode(_, _, _, _, _, _, _)
\* the UTF-8 decoder of the Encoding standard, errors replaced by U+FFFD
Utf8Decode(bs, i, cp, needed, seen, lower, upper) ==
    IF i > Len(bs) THEN (IF needed # 0 THEN <<ReplacementChar>> ELSE <<>>)
    ELSE LET b == bs[i] IN
      IF needed = 0 THEN
        IF b <= 127 THEN <<b>> \o Utf8Decode(bs, i + 1, 0, 0, 0, 128, 191)
        ELSE IF b >= 194 /\ b <= 223 THEN Utf8Decode(bs, i + 1, b % 32, 1, 0, 128, 191)
        ELSE IF b >= 224 /\ b <= 239
        THEN Utf8Decode(bs, i + 1, b % 16, 2, 0,
                        IF b = 224 THEN 160 ELSE 128, IF b = 237 THEN 159 ELSE 191)
        ELSE IF b >= 240 /\ b <= 244
        THEN Utf8Decode(bs, i + 1, b % 8, 3, 0,
                        IF b = 240 THEN 144 ELSE 128, IF b = 244 THEN 143 ELSE 191)
        ELSE <<ReplacementChar>> \o Utf8Decode(bs, i + 1, 0, 0, 0, 128, 191)
      ELSE IF b < lower \/ b > upper
        THEN <<ReplacementChar>> \o Utf8Decode(bs, i, 0, 0, 0, 128, 191)
        ELSE IF seen + 1 = needed
        THEN <<(cp * 64) + (b % 64)>> \o Utf8Decode(bs, i + 1, 0, 0, 0, 128, 191)
        ELSE Utf8Decode(bs, i + 1, (cp * 64) + (b % 64), needed, seen + 1, 128, 191)

\* new TextDecoder().decode(bytes): a leading byte order mark is dropped
TextDecode(bs) ==
    LET cps == Utf8Decode(bs, 1, 0, 0, 0, 128, 191)
    IN  IF cps # <<>> /\ cps[1] = ByteOrderMark THEN Tail(cps) ELSE cps

\* bytes as a JavaScript number
RECURSIVE NatMag(_)
NatMag(n) == IF n = 0 THEN <<>> ELSE <<n % 256>> \o NatMag(n \div 256)

Nat2Num(n) == MkInt("number", FALSE, NatMag(n))

RECURSIVE MagNat(_)
\* a magnitude of at most three digits as a natural number
MagNat(m) == IF m = <<>> THEN 0 ELSE m[1] + (256 * MagNat(Tail(m)))

\* new TextEncoder().encode(value): undefined stands for the default "", null
\* is converted to "null"; the other values that reach it are strings
EncoderInput(val) ==
    CASE val.k = "string" -> val.cps
      [] val.k = "undefined" -> <<>>
      [] val.k = "null" -> <<110, 117, 108, 108>>

writeString(w, val) ==
    LET bs == TextEncode(EncoderInput(val))
        w1 == writeUint32(w, Nat2Num(Len(bs)))
        w2 == ensureCapacity(w1, Len(bs))
    IN  IF w2.err # "" THEN w2 ELSE Advance(StoreAt(w2, bs), Len(bs))

\* const length = this.readUint32(); buffer.slice(offset, offset + length);
\* offset += length.  slice stops at the end of the buffer and does not throw;
\* a length of 2^24 or more is beyond every buffer of the model.
readString(r) ==
    LET len == readUint32(r)
        r1 == len.reader
        n == IF Len(len.value.mag) > 3 THEN 16777216 ELSE MagNat(len.value.mag)
    IN  IF r1.err # "" THEN Ret(r1, undefined)
        ELSE Ret([r1 EXCEPT !.offset = r1.offset + n],
                 Str(TextDecode(SubSeq(r1.buffer, r1.offset + 1,
                        IF r1.offset + n < Len(r1.buffer) THEN r1.offset + n
                                                           ELSE Len(r1.buffer)))))

-----------------------------------------------------------------------------
(* TypeRegistry.  handlers maps a type tag to the handler registered for   *)
(* it, "" standing for no entry.  A handler registered at load time is     *)
(* named by its tag.                                                       *)

BuiltinTags ==
    {"u8", "u16", "u32", "u64", "u128", "i8", "i16", "i32", "i64", "i128",
     "f32", "f64", "string", "unit", "struct", "vec", "set", "map", "option",
     "enum", "tuple", "array", "nativeEnum"}

\* the tags a call may name: the registered ones, the builder's "bool", and
\* tags of a caller's own
TagUniverse == BuiltinTags \cup {"bool", "nonexistent-type", "custom"}

\* the registry once the module is loaded
LoadedHandlers == [t \in TagUniverse |-> IF t \in BuiltinTags THEN t ELSE ""]

\* a register that keeps the handler a tag already has
register_keep_first(h, type, handler) ==
    IF h[type] # "" THEN h ELSE [h EXCEPT ![type] = handler]

\* this.handlers.set(type, handler)
register(h, type, handler) == [h EXCEPT ![type] = handler]

HasHandler(h, type) == type \in DOMAIN h /\ h[type] # ""

NoHandlerMsg(type) == "No handler registered for type: " \o type

\* getHandler(type): [handler, err]
getHandler(h, type) ==
    IF ~HasHandler(h, type) THEN [handler |-> "", err |-> NoHandlerMsg(type)]
    ELSE [handler |-> h[type], err |-> ""]

-----------------------------------------------------------------------------
(* The handlers.                                                           *)

OutOfRangeMsg(t) == "Value out of range for " \o t
NaNMsg == "For portability reasons we do not allow serializing NaN values."

\* the u8 handler without its range check
u8_write_unchecked(w, val) == writeUint8(w, val)

u8_write(w, val) ==
    IF Less(val, Num(<<0>>)) \/ Greater(val, Num(<<2,5,5>>)) \/ ~NumberIsInteger(val)
    THEN Throw(w, OutOfRangeMsg("u8")) ELSE writeUint8(w, val)

\* the u16 handler checking the range after it has written
u16_write_late(w, val) ==
    LET w1 == writeUint16(w, val)
    IN  IF Less(val, Num(<<0>>)) \/ Greater(val, Num(<<6,5,5,3,5>>)) \/ ~NumberIsInteger(val)
        THEN Throw(w1, OutOfRangeMsg("u16")) ELSE w1

u16_write(w, val) ==
    IF Less(val, Num(<<0>>)) \/ Greater(val, Num(<<6,5,5,3,5>>)) \/ ~NumberIsInteger(val)
    THEN Throw(w, OutOfRangeMsg("u16")) ELSE writeUint16(w, val)

u32_write(w, val) ==
    IF \/ Less(val, Num(<<0>>))
       \/ Greater(val, Num(<<4,2,9,4,9,6,7,2,9,5>>))
       \/ ~NumberIsInteger(val)
    THEN Throw(w, OutOfRangeMsg("u32")) ELSE writeUint32(w, val)

u64_write(w, val) ==
    IF \/ Less(val, Big(<<0>>))
       \/ Greater(val, Big(<<1,8,4,4,6,7,4,4,0,7,3,7,0,9,5,5,1,6,1,5>>))
    THEN Throw(w, OutOfRangeMsg("u64")) ELSE writeUint64(w, val)

u128_write(w, val) ==
    IF \/ Less(val, Big(<<0>>))
       \/ Greater(val, Big(<<3,4,0,2,8,2,3,6,6,9,2,0,9,3,8,4,6,3,4,6,
                              3,3,7,4,6,0,7,4,3,1,7,6,8,2,1,1,4,5,5>>))
    THEN Throw(w, OutOfRangeMsg("u128")) ELSE writeUint128(w, val)

i8_write(w, val) ==
    IF \/ Less(val, NegNum(<<1,2,8>>))
       \/ Greater(val, Num(<<1,2,7>>))
       \/ ~NumberIsInteger(val)
    THEN Throw(w, OutOfRangeMsg("i8")) ELSE writeInt8(w, val)

i16_write(w, val) ==
    IF \/ Less(val, NegNum(<<3,2,7,6,8>>))
       \/ Greater(val, Num(<<3,2,7,6,7>>))
       \/ ~NumberIsInteger(val)
    THEN Throw(w, OutOfRangeMsg("i16")) ELSE writeInt16(w, val)

i32_write(w, val) ==
    IF \/ Less(val, NegNum(<<2,1,4,7,4,8,3,6,4,8>>))
       \/ Greater(val, Num(<<2,1,4,7,4,8,3,6,4,7>>))
       \/ ~NumberIsInteger(val)
    THEN Throw(w, OutOfRangeMsg("i32")) ELSE writeInt32(w, val)

i64_write(w, val) ==
    IF \/ Less(val, NegBig(<<9,2,2,3,3,7,2,0,3,6,8,5,4,7,7,5,8,0,8>>))
       \/ Greater(val, Big(<<9,2,2,3,3,7,2,0,3,6,8,5,4,7,7,5,8,0,7>>))
    THEN Throw(w, OutOfRangeMsg("i64")) ELSE writeInt64(w, val)

i128_write(w, val) ==
    IF \/ Less(val, NegBig(<<1,7,0,1,4,1,1,8,3,4,6,0,4,6,9,2,3,1,7,3,
                             1,6,8,7,3,0,3,7,1,5,8,8,4,1,0,5,7,2,8>>))
       \/ Greater(val, Big(<<1,7,0,1,4,1,1,8,3,4,6,0,4,6,9,2,3,1,7,3,
                              1,6,8,7,3,0,3,7,1,5,8,8,4,1,0,5,7,2,7>>))
    THEN Throw(w, OutOfRangeMsg("i128")) ELSE writeInt128(w, val)

\* the f64 handler without its NaN check
f64_write_unchecked(w, val) == writeFloat64(w, val)

f64_write(w, val) ==
    IF NumberIsNaN(val) THEN Throw(w, NaNMsg) ELSE writeFloat64(w, val)

string_write(w, val) == writeString(w, val)

\* write: () => {}
unit_write(w, val) == w

\* read: () => ({})
EmptyObject == [k |-> "object", props |-> <<>>]

unit_read(r) == Ret(r, EmptyObject)

-----------------------------------------------------------------------------
(* Objects and arrays.                                                     *)

Obj(props) == [k |-> "object", props |-> props]
Prop(name, val) == [name |-> name, val |-> val]
Arr(items) == [k |-> "Array", items |-> items]

TypedArrayKinds ==
    {"Uint8Array", "Uint16Array", "Uint32Array", "BigUint64Array", "Int8Array", "Int16Array",
     "Int32Array", "BigInt64Array", "Float32Array", "Float64Array"}

\* ArrayBuffer.isView(value)
IsView(val) == val.k \in TypedArrayKinds

HasLength(val) == val.k = "Array" \/ IsView(val)

IsNullish(val) == val.k \in {"null", "undefined"}

NullishMsg == "TypeError: Cannot read properties of null or undefined"
NotAFunctionMsg == "TypeError: value.entries is not a function"
NotIterableMsg == "TypeError: value is not iterable"

\* Object.entries / Object.keys order: the order the properties were added in
\* (no property name of the model is an array index)
ObjectKeys(o) == [i \in 1..Len(o.props) |-> o.props[i].name]

HasProp(o, name) == o.k = "object" /\ \E i \in 1..Len(o.props) : o.props[i].name = name

\* value[name]
PropGet(o, name) ==
    IF HasProp(o, name)
    THEN o.props[CHOOSE i \in 1..Len(o.props) : o.props[i].name = name].val
    ELSE undefined

\* { type, options }
TypeDef(type, options) == [k |-> "object", type |-> type, options |-> options]

-----------------------------------------------------------------------------
(* The container handlers.  HandlerWrite(h, w, val, options) is            *)
(* handler.write(writer, value, options) for the handler named h, and      *)
(* HandlerRead(h, r, options) is handler.read(reader, options).            *)

RECURSIVE HandlerWrite(_, _, _, _)
RECURSIVE HandlerRead(_, _, _)

RECURSIVE WriteItems(_, _, _, _, _)
\* for (const item of value) handler.write(writer, item, elementOptions)
WriteItems(h, w, items, i, options) ==
    IF i > Len(items) \/ w.err # "" THEN w
    ELSE WriteItems(h, HandlerWrite(h, w, items[i], options), items, i + 1, options)

RECURSIVE ReadItems(_, _, _, _, _)
\* Array.from({ length }, () => handler.read(reader, elementOptions)), the
\* values read so far in acc
ReadItems(h, r, n, options, acc) ==
    IF r.err # "" THEN Ret(r, undefined)
    ELSE IF n = 0 THEN Ret(r, acc)
    ELSE LET x == HandlerRead(h, r, options)
         IN  IF x.reader.err # "" THEN Ret(x.reader, undefined)
             ELSE ReadItems(h, x.reader, n - 1, options, Append(acc, x.value))

RECURSIVE StructWriteFrom(_, _, _, _)
StructWriteFrom(w, val, props, i) ==
    IF i > Len(props) \/ w.err # "" THEN w
    ELSE LET def == props[i].val
             g == getHandler(handlers, def.type)
         IN  IF g.err # "" THEN Throw(w, g.err)
             ELSE IF IsNullish(val) THEN Throw(w, NullishMsg)
             ELSE StructWriteFrom(
                    HandlerWrite(g.handler, w, PropGet(val, props[i].name), def.options),
                    val, props, i + 1)

RECURSIVE StructWriteByValue(_, _, _, _)
StructWriteByValue(w, val, fields, i) ==
    IF i > Len(val.props) \/ w.err # "" THEN w
    ELSE LET def == PropGet(fields, val.props[i].name)
             g == getHandler(handlers, def.type)
         IN  IF ~HasProp(fields, val.props[i].name)
             THEN StructWriteByValue(w, val, fields, i + 1)
             ELSE IF g.err # "" THEN Throw(w, g.err)
             ELSE StructWriteByValue(
                    HandlerWrite(g.handler, w, val.props[i].val, def.options),
                    val, fields, i + 1)

\* the struct handler walking the entries of the value instead of the fields
struct_write_by_value(w, val, fields) ==
    IF IsNullish(fields) THEN w
    ELSE IF val.k # "object" THEN Throw(w, NullishMsg)
    ELSE StructWriteByValue(w, val, fields, 1)

struct_write(w, val, fields) ==
    IF IsNullish(fields) THEN w ELSE StructWriteFrom(w, val, fields.props, 1)

RECURSIVE StructReadFrom(_, _, _, _)
StructReadFrom(r, props, i, acc) ==
    IF r.err # "" THEN Ret(r, undefined)
    ELSE IF i > Len(props) THEN Ret(r, Obj(acc))
    ELSE LET def == props[i].val
             g == getHandler(handlers, def.type)
         IN  IF g.err # "" THEN Fail(r, g.err)
             ELSE LET x == HandlerRead(g.handler, r, def.options)
                  IN  IF x.reader.err # "" THEN Ret(x.reader, undefined)
                      ELSE StructReadFrom(x.reader, props, i + 1,
                                          Append(acc, Prop(props[i].name, x.value)))

struct_read(r, fields) ==
    IF IsNullish(fields) THEN Ret(r, EmptyObject) ELSE StructReadFrom(r, fields.props, 1, <<>>)

\* a vec handler whose write iterates generic arrays only
vec_write_arrays_only(w, val, options) ==
    IF IsNullish(options) THEN w
    ELSE IF IsNullish(val) THEN Throw(w, NullishMsg)
    ELSE IF ~HasLength(val) THEN Throw(writeUint32(w, undefined), NotIterableMsg)
    ELSE LET w1 == writeUint32(w, Nat2Num(Len(val.items)))
             g == getHandler(handlers, options.elementType)
         IN  IF w1.err # "" THEN w1
             ELSE IF g.err # "" THEN Throw(w1, g.err)
             ELSE IF IsView(val) THEN w1
             ELSE WriteItems(g.handler, w1, val.items, 1, options.elementOptions)

vec_write(w, val, options) ==
    IF IsNullish(options) THEN w
    ELSE IF IsNullish(val) THEN Throw(w, NullishMsg)
    ELSE IF ~HasLength(val) THEN Throw(writeUint32(w, undefined), NotIterableMsg)
    ELSE LET w1 == writeUint32(w, Nat2Num(Len(val.items)))
             g == getHandler(handlers, options.elementType)
         IN  IF w1.err # "" THEN w1
             ELSE IF g.err # "" THEN Throw(w1, g.err)
             ELSE WriteItems(g.handler, w1, val.items, 1, options.elementOptions)

\* a count of 2^24 or more is beyond every buffer of the model
CountOf(v) == IF Len(v.mag) > 3 THEN 16777216 ELSE MagNat(v.mag)

\* the switch of the vec handler's read
VecResultKind(elementType) ==
    CASE elementType = "u8" -> "Uint8Array"
      [] elementType = "u16" -> "Uint16Array"
      [] elementType = "u32" -> "Uint32Array"
      [] elementType = "i8" -> "Int8Array"
      [] elementType = "i16" -> "Int16Array"
      [] elementType = "i32" -> "Int32Array"
      [] elementType = "i64" -> "BigInt64Array"
      [] elementType = "f32" -> "Float32Array"
      [] elementType = "f64" -> "Float64Array"
      [] OTHER -> "Array"

\* a vec read that takes the count from one byte
vec_read_short_count(r, options) ==
    IF IsNullish(options) THEN Ret(r, Arr(<<>>))
    ELSE LET len == readUint8(r)
             g == getHandler(handlers, options.elementType)
         IN  IF len.reader.err # "" THEN Ret(len.reader, undefined)
             ELSE IF g.err # "" THEN Fail(len.reader, g.err)
             ELSE LET xs == ReadItems(g.handler, len.reader, CountOf(len.value),
                                      options.elementOptions, <<>>)
                  IN  IF xs.reader.err # "" THEN xs
                      ELSE Ret(xs.reader, [k |-> VecResultKind(options.elementType),
                                           items |-> xs.value])

vec_read(r, options) ==
    IF IsNullish(options) THEN Ret(r, Arr(<<>>))
    ELSE LET len == readUint32(r)
             g == getHandler(handlers, options.elementType)
         IN  IF len.reader.err # "" THEN Ret(len.reader, undefined)
             ELSE IF g.err # "" THEN Fail(len.reader, g.err)
             ELSE LET xs == ReadItems(g.handler, len.reader, CountOf(len.value),
                                      options.elementOptions, <<>>)
                  IN  IF xs.reader.err # "" THEN xs
                      ELSE Ret(xs.reader, [k |-> VecResultKind(options.elementType),
                                           items |-> xs.value])

option_write(w, val, options) ==
    IF IsNullish(options) THEN w
    ELSE LET isSome == val.k # "null"
             w1 == writeUint8(w, Nat2Num(IF isSome THEN 1 ELSE 0))
             g == getHandler(handlers, options.valueType)
         IN  IF w1.err # "" \/ ~isSome THEN w1
             ELSE IF g.err # "" THEN Throw(w1, g.err)
             ELSE HandlerWrite(g.handler, w1, val, options.valueOptions)

\* the option handler taking every discriminator other than 0 as present
option_read_nonzero(r, options) ==
    IF IsNullish(options) THEN Ret(r, null)
    ELSE LET d == readUint8(r)
             g == getHandler(handlers, options.valueType)
         IN  IF d.reader.err # "" THEN Ret(d.reader, undefined)
             ELSE IF d.value # Nat2Num(0)
             THEN (IF g.err # "" THEN Fail(d.reader, g.err)
                   ELSE HandlerRead(g.handler, d.reader, options.valueOptions))
             ELSE Ret(d.reader, null)

option_read(r, options) ==
    IF IsNullish(options) THEN Ret(r, null)
    ELSE LET d == readUint8(r)
             g == getHandler(handlers, options.valueType)
         IN  IF d.reader.err # "" THEN Ret(d.reader, undefined)
             ELSE IF d.value = Nat2Num(1)
             THEN (IF g.err # "" THEN Fail(d.reader, g.err)
                   ELSE HandlerRead(g.handler, d.reader, options.valueOptions))
             ELSE Ret(d.reader, null)

-----------------------------------------------------------------------------
(* ToString and the default order of Array.prototype.sort: elements are    *)
(* compared by the UTF-16 code units of their string conversions, and the  *)
(* sort is stable.                                                         *)

RECURSIVE DivSmall(_, _, _)
\* long division of the digits ds (most significant first) by k, remainder rem
\* carried in: [q, r]
DivSmall(ds, k, rem) ==
    IF ds = <<>> THEN [q |-> <<>>, r |-> rem]
    ELSE LET t == (rem * 256) + ds[1]
             rest == DivSmall(Tail(ds), k, t % k)
         IN  [q |-> <<t \div k>> \o rest.q, r |-> rest.r]

RECURSIVE DecimalDigitsFrom(_, _)
\* the decimal digits of a magnitude put before the digits acc
DecimalDigitsFrom(m, acc) ==
    IF Len(acc) >= 0 /\ m = <<>> THEN acc
    ELSE LET d == DivSmall(Reverse(m), 10, 0)
         IN  DecimalDigitsFrom(Norm(Reverse(d.q)), <<d.r>> \o acc)

\* the decimal digits of a magnitude, most significant first (none for zero)
DecimalDigits(m) == DecimalDigitsFrom(m, <<>>)

\* the code units of the decimal numeral of an integer
IntToString(v) ==
    LET ds == DecimalDigits(v.mag)
    IN  IF ds = <<>> THEN <<48>>
        ELSE (IF v.neg THEN <<45>> ELSE <<>>) \o [i \in 1..Len(ds) |-> 48 + ds[i]]

\* the UTF-16 code units of a string
CodeUnits(cps) ==
    Concat([i \in 1..Len(cps) |->
        IF cps[i] < 65536 THEN <<cps[i]>>
        ELSE <<55296 + ((cps[i] - 65536) \div 1024), 56320 + ((cps[i] - 65536) % 1024)>>])

RECURSIVE JoinWith(_, _)
JoinWith(parts, sep) ==
    IF parts = <<>> THEN <<>>
    ELSE IF Len(parts) = 1 THEN parts[1]
    ELSE parts[1] \o sep \o JoinWith(Tail(parts), sep)

RECURSIVE ToStringJS(_)
\* String(value) as code units.  A finite double that is not an integer has
\* no conversion here: no collection of the model holds one.
ToStringJS(v) ==
    CASE v.k \in {"number", "bigint"} -> IntToString(v)
      [] v.k = "string" -> CodeUnits(v.cps)
      [] v.k = "double" /\ IsNaNDouble(v) -> <<78, 97, 78>>
      [] v.k = "double" /\ IsInfDouble(v) ->
            (IF v.sign = 1 THEN <<45>> ELSE <<>>) \o <<73, 110, 102, 105, 110, 105, 116, 121>>
      [] v.k = "double" /\ IsZeroDouble(v) -> <<48>>
      [] v.k = "boolean" -> IF v.b THEN <<116, 114, 117, 101>> ELSE <<102, 97, 108, 115, 101>>
      [] v.k = "null" -> <<110, 117, 108, 108>>
      [] v.k = "undefined" -> <<117, 110, 100, 101, 102, 105, 110, 101, 100>>
      [] v.k = "object" -> <<91, 111, 98, 106, 101, 99, 116, 32, 79, 98, 106, 101, 99, 116, 93>>
      [] v.k = "Set" -> <<91, 111, 98, 106, 101, 99, 116, 32, 83, 101, 116, 93>>
      [] v.k = "Map" -> <<91, 111, 98, 106, 101, 99, 116, 32, 77, 97, 112, 93>>
      [] HasLength(v) ->
            JoinWith([i \in 1..Len(v.items) |->
                        IF IsNullish(v.items[i]) THEN <<>> ELSE ToStringJS(v.items[i])],
                     <<44>>)

RECURSIVE LexLess(_, _)
\* a < b on sequences of code units
LexLess(a, b) ==
    IF b = <<>> THEN FALSE
    ELSE IF a = <<>> THEN TRUE
    ELSE IF a[1] # b[1] THEN a[1] < b[1]
    ELSE LexLess(Tail(a), Tail(b))

\* SortCompare(x, y) < 0: undefined sorts last
SortsBefore(x, y) ==
    IF x.k = "undefined" THEN FALSE
    ELSE IF y.k = "undefined" THEN TRUE
    ELSE LexLess(ToStringJS(x), ToStringJS(y))

RECURSIVE InsertSorted(_, _)
\* x put behind every element that does not sort after it
InsertSorted(sorted, x) ==
    IF sorted = <<>> THEN <<x>>
    ELSE IF SortsBefore(x, sorted[1]) THEN <<x>> \o sorted
    ELSE <<sorted[1]>> \o InsertSorted(Tail(sorted), x)

RECURSIVE SortFrom(_, _, _)
SortFrom(items, i, acc) ==
    IF i > Len(items) THEN acc ELSE SortFrom(items, i + 1, InsertSorted(acc, items[i]))

\* array.sort()
Sort(items) == SortFrom(items, 1, <<>>)

-----------------------------------------------------------------------------
(* Set and Map.  A Set is its elements, a Map its [key, val] entries, in   *)
(* insertion order.                                                        *)

SetOf(items) == [k |-> "Set", items |-> items]
MapOf(entries) == [k |-> "Map", entries |-> entries]
Entry(key, val) == [key |-> key, val |-> val]

IsPrimitive(v) ==
    v.k \in {"number", "bigint", "double", "string", "boolean", "null", "undefined"}

\* SameValueZero: objects are equal only to themselves, and every value read
\* from the wire is a new object
SameValueZero(x, y) ==
    /\ IsPrimitive(x)
    /\ IsPrimitive(y)
    /\ \/ x = y
       \/ /\ x.k \in {"number", "double"}
          /\ y.k \in {"number", "double"}
          /\ IF x.k = "number" THEN x.mag = <<>> ELSE IsZeroDouble(x)
          /\ IF y.k = "number" THEN y.mag = <<>> ELSE IsZeroDouble(y)

RECURSIVE NewSetFrom(_, _, _)
NewSetFrom(items, i, acc) ==
    IF i > Len(items) THEN acc
    ELSE IF \E j \in 1..Len(acc) : SameValueZero(acc[j], items[i])
    THEN NewSetFrom(items, i + 1, acc)
    ELSE NewSetFrom(items, i + 1, Append(acc, items[i]))

\* new Set(items)
NewSet(items) == SetOf(NewSetFrom(items, 1, <<>>))

\* new Map(entries): one entry for each key, at the place of the key's first
\* entry and holding its last one
NewMap(entries) ==
    LET Same(i) == {j \in 1..Len(entries) : SameValueZero(entries[j].key, entries[i].key)}
        IsFirst(i) == \A j \in Same(i) : i <= j
        Last(i) == CHOOSE j \in Same(i) \cup {i} : \A h \in Same(i) : h <= j
        firsts == SelectSeq([i \in 1..Len(entries) |-> i], IsFirst)
    IN  MapOf([n \in 1..Len(firsts) |-> entries[Last(firsts[n])]])

\* Array.from(value.entries()): each entry the two-element array [key, val]
EntryArrays(entries) == [i \in 1..Len(entries) |-> Arr(<<entries[i].key, entries[i].val>>)]

-----------------------------------------------------------------------------
(* The remaining handlers, and the dispatch on the handler's name.         *)

f32_write(w, val) == writeFloat32(w, val)

set_write(w, val, options) ==
    IF IsNullish(options) THEN w
    ELSE IF IsNullish(val) THEN Throw(w, NullishMsg)
    ELSE LET array == Sort(IF val.k = "Set" \/ HasLength(val) THEN val.items ELSE <<>>)
             w1 == writeUint32(w, Nat2Num(Len(array)))
             g == getHandler(handlers, options.elementType)
         IN  IF w1.err # "" THEN w1
             ELSE IF g.err # "" THEN Throw(w1, g.err)
             ELSE WriteItems(g.handler, w1, array, 1, options.elementOptions)

set_read(r, options) ==
    IF IsNullish(options) THEN Ret(r, SetOf(<<>>))
    ELSE LET len == readUint32(r)
             g == getHandler(handlers, options.elementType)
         IN  IF len.reader.err # "" THEN Ret(len.reader, undefined)
             ELSE IF g.err # "" THEN Fail(len.reader, g.err)
             ELSE LET xs == ReadItems(g.handler, len.reader, CountOf(len.value),
                                      options.elementOptions, <<>>)
                  IN  IF xs.reader.err # "" THEN xs
                      ELSE Ret(xs.reader, NewSet(xs.value))

RECURSIVE WriteEntries(_, _, _, _, _, _)
\* for (const [key, val] of entries) { keyHandler.write; valueHandler.write }
WriteEntries(kh, vh, w, entries, i, options) ==
    IF i > Len(entries) \/ w.err # "" THEN w
    ELSE LET w1 == HandlerWrite(kh, w, entries[i].items[1], options.keyOptions)
             w2 == IF w1.err # "" THEN w1
                   ELSE HandlerWrite(vh, w1, entries[i].items[2], options.valueOptions)
         IN  WriteEntries(kh, vh, w2, entries, i + 1, options)

map_write(w, val, options) ==
    IF IsNullish(options) THEN w
    ELSE IF val.k # "Map" /\ ~HasLength(val) THEN Throw(w, NotAFunctionMsg)
    ELSE LET entries == Sort(IF val.k = "Map" THEN EntryArrays(val.entries)
                             ELSE [i \in 1..Len(val.items) |->
                                     Arr(<<Nat2Num(i - 1), val.items[i]>>)])
             w1 == writeUint32(w, Nat2Num(Len(entries)))
             kg == getHandler(handlers, options.keyType)
             vg == getHandler(handlers, options.valueType)
         IN  IF w1.err # "" THEN w1
             ELSE IF kg.err # "" THEN Throw(w1, kg.err)
             ELSE IF vg.err # "" THEN Throw(w1, vg.err)
             ELSE WriteEntries(kg.handler, vg.handler, w1, entries, 1, options)

RECURSIVE ReadEntries(_, _, _, _, _, _)
ReadEntries(kh, vh, r, n, options, acc) ==
    IF r.err # "" THEN Ret(r, undefined)
    ELSE IF n = 0 THEN Ret(r, acc)
    ELSE LET key == HandlerRead(kh, r, options.keyOptions)
             val == HandlerRead(vh, key.reader, options.valueOptions)
         IN  IF key.reader.err # "" THEN Ret(key.reader, undefined)
             ELSE IF val.reader.err # "" THEN Ret(val.reader, undefined)
             ELSE ReadEntries(kh, vh, val.reader, n - 1, options,
                              Append(acc, Entry(key.value, val.value)))

map_read(r, options) ==
    IF IsNullish(options) THEN Ret(r, MapOf(<<>>))
    ELSE LET len == readUint32(r)
             kg == getHandler(handlers, options.keyType)
             vg == getHandler(handlers, options.valueType)
         IN  IF len.reader.err # "" THEN Ret(len.reader, undefined)
             ELSE IF kg.err # "" THEN Fail(len.reader, kg.err)
             ELSE IF vg.err # "" THEN Fail(len.reader, vg.err)
             ELSE LET es == ReadEntries(kg.handler, vg.handler, len.reader,
                                        CountOf(len.value), options, <<>>)
                  IN  IF es.reader.err # "" THEN es
                      ELSE Ret(es.reader, NewMap(es.value))

\* Object.keys(value) of a value that is not null or undefined
KeysOf(val) ==
    CASE val.k = "object" -> ObjectKeys(val)
      [] HasLength(val) -> [i \in 1..Len(val.items) |-> ToString(i - 1)]
      [] val.k = "string" -> [i \in 1..Len(CodeUnits(val.cps)) |-> ToString(i - 1)]
      [] OTHER -> <<>>

UnknownVariantMsg(name) == "Unknown enum variant: " \o name
UnknownIndexMsg(index) == "Unknown enum variant index: " \o ToString(index)

\* options.variants.find(pred): the position of the first match, 0 for none
FindVariant(variants, Pred(_)) ==
    IF \E i \in 1..Len(variants) : Pred(variants[i])
    THEN CHOOSE i \in 1..Len(variants) :
            Pred(variants[i]) /\ \A j \in 1..(i - 1) : ~Pred(variants[j])
    ELSE 0

enum_write(w, val, options) ==
    IF IsNullish(options) THEN w
    ELSE IF IsNullish(val) THEN Throw(w, NullishMsg)
    ELSE LET keys == KeysOf(val)
             variantName == IF keys = <<>> THEN "undefined" ELSE keys[1]
             variantValue == IF keys = <<>> \/ val.k = "string" THEN undefined
                             ELSE IF HasLength(val) THEN val.items[1]
                             ELSE PropGet(val, variantName)
             ByName(v) == keys # <<>> /\ v.name = variantName
             at == FindVariant(options.variants, ByName)
             variant == options.variants[at]
             w1 == writeUint8(w, Nat2Num(variant.index))
             g == getHandler(handlers, variant.type)
         IN  IF at = 0 THEN Throw(w, UnknownVariantMsg(variantName))
             ELSE IF w1.err # "" \/ variant.type = "unit" THEN w1
             ELSE IF g.err # "" THEN Throw(w1, g.err)
             ELSE HandlerWrite(g.handler, w1, variantValue, variant.options)

enum_read(r, options) ==
    IF IsNullish(options) THEN Ret(r, EmptyObject)
    ELSE LET index == readUint8(r)
             ByIndex(v) == Nat2Num(v.index) = index.value
             at == FindVariant(options.variants, ByIndex)
             variant == options.variants[at]
             g == getHandler(handlers, variant.type)
             x == HandlerRead(g.handler, index.reader, variant.options)
         IN  IF index.reader.err # "" THEN Ret(index.reader, undefined)
             ELSE IF at = 0 THEN Fail(index.reader, UnknownIndexMsg(MagNat(index.value.mag)))
             ELSE IF variant.type = "unit"
             THEN Ret(index.reader, Obj(<<Prop(variant.name, EmptyObject)>>))
             ELSE IF g.err # "" THEN Fail(index.reader, g.err)
             ELSE IF x.reader.err # "" THEN Ret(x.reader, undefined)
             ELSE Ret(x.reader, Obj(<<Prop(variant.name, x.value)>>))

\* value.length of a value that is not null or undefined: -1 for undefined
LengthOf(val) ==
    IF HasLength(val) THEN Len(val.items)
    ELSE IF val.k = "string" THEN Len(CodeUnits(val.cps))
    ELSE -1

ShowLength(n) == IF n = -1 THEN "undefined" ELSE ToString(n)

TupleMismatchMsg(expected, got) ==
    "Tuple length mismatch: expected " \o ToString(expected) \o ", got " \o ShowLength(got)

ArrayMismatchMsg(expected, got) ==
    "Array length mismatch: expected " \o ToString(expected) \o ", got " \o ShowLength(got)

MissingTypeMsg(i) == "Missing type information for tuple element at index " \o ToString(i)

\* value[i] for i counted from 1
ItemAt(val, i) == IF HasLength(val) /\ i <= Len(val.items) THEN val.items[i] ELSE undefined

RECURSIVE TupleWriteFrom(_, _, _, _)
TupleWriteFrom(w, val, types, i) ==
    IF i > Len(types) \/ w.err # "" THEN w
    ELSE LET typeInfo == types[i]
             g == getHandler(handlers, typeInfo.type)
         IN  IF IsNullish(typeInfo) THEN Throw(w, MissingTypeMsg(i - 1))
             ELSE IF g.err # "" THEN Throw(w, g.err)
             ELSE TupleWriteFrom(HandlerWrite(g.handler, w, ItemAt(val, i), typeInfo.options),
                                 val, types, i + 1)

tuple_write(w, val, types) ==
    IF IsNullish(types) THEN w
    ELSE IF IsNullish(val) THEN Throw(w, NullishMsg)
    ELSE IF LengthOf(val) # Len(types.items)
    THEN Throw(w, TupleMismatchMsg(Len(types.items), LengthOf(val)))
    ELSE TupleWriteFrom(w, val, types.items, 1)

RECURSIVE TupleReadFrom(_, _, _, _)
TupleReadFrom(r, types, i, acc) ==
    IF r.err # "" THEN Ret(r, undefined)
    ELSE IF i > Len(types) THEN Ret(r, Arr(acc))
    ELSE LET g == getHandler(handlers, types[i].type)
         IN  IF IsNullish(types[i]) THEN Fail(r, NullishMsg)
             ELSE IF g.err # "" THEN Fail(r, g.err)
             ELSE LET x == HandlerRead(g.handler, r, types[i].options)
                  IN  IF x.reader.err # "" THEN Ret(x.reader, undefined)
                      ELSE TupleReadFrom(x.reader, types, i + 1, Append(acc, x.value))

tuple_read(r, types) ==
    IF IsNullish(types) THEN Ret(r, Arr(<<>>)) ELSE TupleReadFrom(r, types.items, 1, <<>>)

\* the array handler rejecting only a value that is too short
array_write_lenient(w, val, options) ==
    IF IsNullish(options) THEN w
    ELSE IF IsNullish(val) THEN Throw(w, NullishMsg)
    ELSE LET g == getHandler(handlers, options.elementType)
         IN  IF LengthOf(val) < options.length
             THEN Throw(w, ArrayMismatchMsg(options.length, LengthOf(val)))
             ELSE IF g.err # "" THEN Throw(w, g.err)
             ELSE IF val.k = "string" THEN Throw(w, NotIterableMsg)
             ELSE WriteItems(g.handler, w, val.items, 1, options.elementOptions)

array_write(w, val, options) ==
    IF IsNullish(options) THEN w
    ELSE IF IsNullish(val) THEN Throw(w, NullishMsg)
    ELSE LET g == getHandler(handlers, options.elementType)
         IN  IF LengthOf(val) # options.length
             THEN Throw(w, ArrayMismatchMsg(options.length, LengthOf(val)))
             ELSE IF g.err # "" THEN Throw(w, g.err)
             ELSE IF val.k = "string" THEN Throw(w, NotIterableMsg)
             ELSE WriteItems(g.handler, w, val.items, 1, options.elementOptions)

array_read(r, options) ==
    IF IsNullish(options) THEN Ret(r, Arr(<<>>))
    ELSE LET g == getHandler(handlers, options.elementType)
             xs == ReadItems(g.handler, r, options.length, options.elementOptions, <<>>)
         IN  IF g.err # "" THEN Fail(r, g.err)
             ELSE IF xs.reader.err # "" THEN xs
             ELSE Ret(xs.reader, Arr(xs.value))

\* map.get(key): undefined when no key is the same value
MapGet(m, key) ==
    IF \E i \in 1..Len(m.entries) : SameValueZero(m.entries[i].key, key)
    THEN m.entries[CHOOSE i \in 1..Len(m.entries) : SameValueZero(m.entries[i].key, key)].val
    ELSE undefined

UpperCase ==
    <<"A", "B", "C", "D", "E", "F", "G", "H", "I", "J", "K", "L", "M",
      "N", "O", "P", "Q", "R", "S", "T", "U", "V", "W", "X", "Y", "Z">>

LowerCase ==
    <<"a", "b", "c", "d", "e", "f", "g", "h", "i", "j", "k", "l", "m",
      "n", "o", "p", "q", "r", "s", "t", "u", "v", "w", "x", "y", "z">>

\* the character of a code point, for letters, digits and the hyphen
CharOf(cp) ==
    CASE cp \in 48..57 -> ToString(cp - 48)
      [] cp \in 65..90 -> UpperCase[cp - 64]
      [] cp \in 97..122 -> LowerCase[cp - 96]
      [] cp = 45 -> "-"

RECURSIVE FromCodePoints(_)
\* the text of a string of such characters
FromCodePoints(cps) ==
    IF cps = <<>> THEN "" ELSE CharOf(Head(cps)) \o FromCodePoints(Tail(cps))

\* String(value) in a message, for the values a native enum is asked about
ShowValue(v) ==
    CASE v.k \in {"number", "bigint"} /\ Len(v.mag) <= 3 ->
            (IF v.neg THEN "-" ELSE "") \o ToString(MagNat(v.mag))
      [] v.k = "string" -> FromCodePoints(v.cps)
      [] v.k \in {"null", "undefined"} -> v.k
      [] OTHER -> "<" \o v.k \o ">"

InvalidEnumValueMsg(v) == "Invalid enum value: " \o ShowValue(v)
InvalidEnumIndexMsg(index) == "Invalid enum index: " \o ToString(index)

nativeEnum_write(w, val, options) ==
    IF IsNullish(options) THEN w
    ELSE LET index == MapGet(options.valueToIndexMap, val)
         IN  IF index.k = "undefined" THEN Throw(w, InvalidEnumValueMsg(val))
             ELSE writeUint8(w, index)

\* a read that hands on what indexToValueMap.get returned
nativeEnum_read_default(r, options) ==
    IF IsNullish(options) THEN Ret(r, null)
    ELSE LET index == readUint8(r)
         IN  IF index.reader.err # "" THEN Ret(index.reader, undefined)
             ELSE Ret(index.reader, MapGet(options.indexToValueMap, index.value))

nativeEnum_read(r, options) ==
    IF IsNullish(options) THEN Ret(r, null)
    ELSE LET index == readUint8(r)
             val == MapGet(options.indexToValueMap, index.value)
         IN  IF index.reader.err # "" THEN Ret(index.reader, undefined)
             ELSE IF val.k = "undefined"
             THEN Fail(index.reader, InvalidEnumIndexMsg(MagNat(index.value.mag)))
             ELSE Ret(index.reader, val)

\* handler.write(writer, value, options) of the handler registered under h
HandlerWrite(h, w, val, options) ==
    IF w.err # "" THEN w
    ELSE CASE h = "u8" -> u8_write(w, val)
           [] h = "u16" -> u16_write(w, val)
           [] h = "u32" -> u32_write(w, val)
           [] h = "u64" -> u64_write(w, val)
           [] h = "u128" -> u128_write(w, val)
           [] h = "i8" -> i8_write(w, val)
           [] h = "i16" -> i16_write(w, val)
           [] h = "i32" -> i32_write(w, val)
           [] h = "i64" -> i64_write(w, val)
           [] h = "i128" -> i128_write(w, val)
           [] h = "f32" -> f32_write(w, val)
           [] h = "f64" -> f64_write(w, val)
           [] h = "string" -> string_write(w, val)
           [] h = "unit" -> unit_write(w, val)
           [] h = "struct" -> struct_write(w, val, options)
           [] h = "vec" -> vec_write(w, val, options)
           [] h = "set" -> set_write(w, val, options)
           [] h = "map" -> map_write(w, val, options)
           [] h = "option" -> option_write(w, val, options)
           [] h = "enum" -> enum_write(w, val, options)
           [] h = "tuple" -> tuple_write(w, val, options)
           [] h = "array" -> array_write(w, val, options)
           [] h = "nativeEnum" -> nativeEnum_write(w, val, options)

\* handler.read(reader, options) of the handler registered under h
HandlerRead(h, r, options) ==
    IF r.err # "" THEN Ret(r, undefined)
    ELSE CASE h = "u8" -> readUint8(r)
           [] h = "u16" -> readUint16(r)
           [] h = "u32" -> readUint32(r)
           [] h = "u64" -> readUint64(r)
           [] h = "u128" -> readUint128(r)
           [] h = "i8" -> readInt8(r)
           [] h = "i16" -> readInt16(r)
           [] h = "i32" -> readInt32(r)
           [] h = "i64" -> readInt64(r)
           [] h = "i128" -> readInt128(r)
           [] h = "f32" -> readFloat32(r)
           [] h = "f64" -> readFloat64(r)
           [] h = "string" -> readString(r)
           [] h = "unit" -> unit_read(r)
           [] h = "struct" -> struct_read(r, options)
           [] h = "vec" -> vec_read(r, options)
           [] h = "set" -> set_read(r, options)
           [] h = "map" -> map_read(r, options)
           [] h = "option" -> option_read(r, options)
           [] h = "enum" -> enum_read(r, options)
           [] h = "tuple" -> tuple_read(r, options)
           [] h = "array" -> array_read(r, options)
           [] h = "nativeEnum" -> nativeEnum_read(r, options)

-----------------------------------------------------------------------------
(* schema.ts: Schema and the builder b.  A schema is [type, options]; its  *)
(* registry is the module's one registry, the variable handlers.           *)

Schema(type, options) == [type |-> type, options |-> options]

\* serialize(value): the writer as the call leaves it, err the exception
\* a serialize that goes on with the writer of the call before it
serialize_shared_writer(sch, val) ==
    LET w == IF op = "load" THEN NewWriter(DefaultInitialSize) ELSE [writer EXCEPT !.err = ""]
        g == getHandler(handlers, sch.type)
    IN  IF g.err # "" THEN Throw(w, g.err)
        ELSE HandlerWrite(g.handler, w, val, sch.options)

serialize(sch, val) ==
    LET w == NewWriter(DefaultInitialSize)
        g == getHandler(handlers, sch.type)
    IN  IF g.err # "" THEN Throw(w, g.err)
        ELSE HandlerWrite(g.handler, w, val, sch.options)

\* deserialize(buffer): [reader, value]
deserialize(sch, buffer) ==
    LET r == NewReader(buffer)
        g == getHandler(handlers, sch.type)
    IN  IF g.err # "" THEN Fail(r, g.err)
        ELSE HandlerRead(g.handler, r, sch.options)

b_u8 == Schema("u8", null)
b_u16 == Schema("u16", null)
b_u32 == Schema("u32", null)
b_u64 == Schema("u64", null)
b_u128 == Schema("u128", null)
b_i8 == Schema("i8", null)
b_i16 == Schema("i16", null)
b_i32 == Schema("i32", null)
b_i64 == Schema("i64", null)
b_i128 == Schema("i128", null)
b_f32 == Schema("f32", null)
b_f64 == Schema("f64", null)
b_bool == Schema("bool", null)
b_string == Schema("string", null)
b_unit == Schema("unit", null)

b_vec(elementSchema) ==
    Schema("vec", [k |-> "object", elementType |-> elementSchema.type,
                   elementOptions |-> elementSchema.options])

b_hashSet(elementSchema) ==
    Schema("set", [k |-> "object", elementType |-> elementSchema.type,
                   elementOptions |-> elementSchema.options])

b_hashMap(keySchema, valueSchema) ==
    Schema("map", [k |-> "object", keyType |-> keySchema.type, keyOptions |-> keySchema.options,
                   valueType |-> valueSchema.type, valueOptions |-> valueSchema.options])

b_option(valueSchema) ==
    Schema("option", [k |-> "object", valueType |-> valueSchema.type,
                      valueOptions |-> valueSchema.options])

b_array(elementSchema, length) ==
    Schema("array", [k |-> "object", elementType |-> elementSchema.type,
                     elementOptions |-> elementSchema.options, length |-> length])

\* variants: the entries <<name, schema>> of the record given to b.enum, in
\* declaration order; each gets its position as index
b_enum(variants) ==
    Schema("enum", [k |-> "object", variants |->
        [i \in 1..Len(variants) |->
            [k |-> "object", index |-> i - 1, name |-> variants[i][1],
             type |-> variants[i][2].type, options |-> variants[i][2].options]]])

\* fields: the entries <<name, schema>> of the record given to b.struct
b_struct(fields) ==
    Schema("struct", Obj([i \in 1..Len(fields) |->
        Prop(fields[i][1], TypeDef(fields[i][2].type, fields[i][2].options))]))

b_tuple(elements) ==
    Schema("tuple", Arr([i \in 1..Len(elements) |->
        TypeDef(elements[i].type, elements[i].options)]))

MaxNumericKey == 256

MaxNativeEnumLabels == 255

\* the keys of the model's enum objects that Number(key) turns into a number
NumericStrings == {ToString(n) : n \in 0..MaxNumericKey}

\* Number.isNaN(Number(key))
KeyIsNaN(key) == key \notin NumericStrings

\* Object.entries(enumObj).filter(([key]) => ... Number.isNaN(Number(key)))
EnumEntries(enumObj) == SelectSeq(enumObj.props, LAMBDA p : KeyIsNaN(p.name))

MixedEnumMsg == "Mixed string/numeric enums are not supported"
TooManyLabelsMsg == "Borsh only supports enums with up to 255 variants"

\* a builder that rejects mixed values and does not count the labels
b_nativeEnum_uncounted(enumObj) ==
    LET enumEntries == EnumEntries(enumObj)
        isMixed ==
            /\ \E i \in 1..Len(enumEntries) : enumEntries[i].val.k = "string"
            /\ \E i \in 1..Len(enumEntries) : enumEntries[i].val.k \in {"number", "double"}
    IN  IF isMixed THEN [err |-> MixedEnumMsg, schema |-> undefined]
        ELSE [err |-> "",
              schema |-> Schema("nativeEnum",
                [k |-> "object", enumObj |-> enumObj,
                 valueToIndexMap |->
                    NewMap([i \in 1..Len(enumEntries) |->
                                Entry(enumEntries[i].val, Nat2Num(i - 1))]),
                 indexToValueMap |->
                    NewMap([i \in 1..Len(enumEntries) |->
                                Entry(Nat2Num(i - 1), enumEntries[i].val)])])]

\* b.nativeEnum(enumObj): the schema, or the error thrown instead
b_nativeEnum(enumObj) ==
    LET enumEntries == EnumEntries(enumObj)
        hasStringValues == \E i \in 1..Len(enumEntries) : enumEntries[i].val.k = "string"
        hasNumericValues ==
            \E i \in 1..Len(enumEntries) : enumEntries[i].val.k \in {"number", "double"}
        valueToIndexMap ==
            NewMap([i \in 1..Len(enumEntries) |-> Entry(enumEntries[i].val, Nat2Num(i - 1))])
        indexToValueMap ==
            NewMap([i \in 1..Len(enumEntries) |-> Entry(Nat2Num(i - 1), enumEntries[i].val)])
    IN  IF hasStringValues /\ hasNumericValues
        THEN [err |-> MixedEnumMsg, schema |-> undefined]
        ELSE IF Len(enumEntries) > MaxNativeEnumLabels
        THEN [err |-> TooManyLabelsMsg, schema |-> undefined]
        ELSE [err |-> "",
              schema |-> Schema("nativeEnum",
                            [k |-> "object", enumObj |-> enumObj,
                             valueToIndexMap |-> valueToIndexMap,
                             indexToValueMap |-> indexToValueMap])]

-----------------------------------------------------------------------------
(* The schemas and values the calls of the model are made with.            *)

MaxStrLen == 2
MaxItems == 2
NumVariants == 257

IntegerTags == {"u8", "u16", "u32", "u64", "u128", "i8", "i16", "i32", "i64", "i128"}

WidthOf(t) ==
    CASE t \in {"u8", "i8"} -> 8
      [] t \in {"u16", "i16"} -> 16
      [] t \in {"u32", "i32", "f32"} -> 32
      [] t \in {"u64", "i64", "f64"} -> 64
      [] t \in {"u128", "i128"} -> 128

IsSignedTag(t) == t \in {"i8", "i16", "i32", "i64", "i128"}

\* the runtime type of the values of an integer schema
KindOf(t) == IF WidthOf(t) >= 64 THEN "bigint" ELSE "number"

\* 2^n
Pow2(n) == BitsToMag(<<1>> \o Zeros(n))

One(kind) == MkInt(kind, FALSE, <<1>>)

\* the least and the greatest value of the integer type t
MinOf(t) ==
    IF IsSignedTag(t) THEN MkInt(KindOf(t), TRUE, Pow2(WidthOf(t) - 1))
    ELSE MkInt(KindOf(t), FALSE, <<>>)

MaxOf(t) ==
    MkInt(KindOf(t), FALSE,
          SubMag(Pow2(IF IsSignedTag(t) THEN WidthOf(t) - 1 ELSE WidthOf(t)), <<1>>))

OnePointFive == Double(0, 1023, <<1>> \o Zeros(51))
Pi ==
    Double(0, 1024, Concat([i \in 1..13 |->
        BitsOf(<<9, 2, 1, 15, 11, 5, 4, 4, 4, 2, 13, 1, 8>>[i], 4)]))
MinNormal == Double(0, 1, Zeros(52))
MinSubnormal == Double(0, 0, Zeros(51) \o <<1>>)
MaxDouble == Double(0, 2046, [i \in 1..52 |-> 1])

True == [k |-> "boolean", b |-> TRUE]
False == [k |-> "boolean", b |-> FALSE]

IntegerInputs(t) ==
    LET one == One(KindOf(t))
        other == IF KindOf(t) = "bigint" THEN "number" ELSE "bigint"
    IN  { IntAdd(MinOf(t), IntNeg(one)), MinOf(t), IntAdd(MinOf(t), one),
          IntNeg(one), MkInt(KindOf(t), FALSE, <<>>), one,
          IntAdd(MaxOf(t), IntNeg(one)), MaxOf(t), IntAdd(MaxOf(t), one),
          MkInt(other, FALSE, <<5>>), OnePointFive, NaN, PosInfinity, null }

\* numbers, each in its one representation
FloatInputs ==
    { NaN, PosInfinity, NegInfinity, NegZero, Pi, MinNormal, MinSubnormal,
      CanonNumber(MaxDouble), OnePointFive, Num(<<0>>), Num(<<1>>), NegNum(<<1>>),
      Num(<<1,6,7,7,7,2,1,7>>) }

\* a, e-acute, the euro sign, an emoji, the byte order mark, a lone surrogate
CodePoints == {97, 233, 8364, 128512, 65279, 55357}

SeqsUpTo(S, n) == UNION {[1..m -> S] : m \in 0..n}

StringInputs == {Str(cps) : cps \in SeqsUpTo(CodePoints, MaxStrLen)}

Case(sch, val) == [schema |-> sch, value |-> val]

PrimitiveCases ==
    UNION {{Case(Schema(t, null), v) : v \in IntegerInputs(t)} : t \in IntegerTags}
    \cup {Case(sch, v) : sch \in {b_f32, b_f64}, v \in FloatInputs}
    \cup {Case(b_string, v) : v \in StringInputs}
    \cup {Case(b_bool, v) : v \in {True, False}}
    \cup {Case(b_unit, EmptyObject)}

\* the orders in which the properties props can have been added
Orders(props) ==
    {[i \in 1..Len(props) |-> props[p[i]]] : p \in Permutations(1..Len(props))}

StructSchema == b_struct(<<<<"a", b_u8>>, <<"b", b_string>>, <<"c", b_i16>>>>)

StructValues ==
    UNION {{Obj(props) : props \in Orders(<<Prop("a", va), Prop("b", vb), Prop("c", vc)>>)} :
             va \in {Num(<<1>>), Num(<<2,5,6>>)},
             vb \in {Str(<<120>>), Str(<<>>)},
             vc \in {NegNum(<<2>>), Num(<<4,0,0,0,0>>)}}
    \cup {Obj(props) : props \in Orders(<<Prop("a", Num(<<1>>)), Prop("b", Str(<<120>>)),
                                          Prop("c", NegNum(<<2>>)), Prop("z", Num(<<9>>))>>)}
    \cup {Obj(<<Prop("a", Num(<<1>>)), Prop("b", Str(<<120>>))>>), null}

SmallEnum ==
    b_enum(<<<<"A", b_unit>>, <<"B", b_u8>>, <<"C", b_string>>, <<"D", b_option(b_u16)>>>>)

SmallEnumValues ==
    { Obj(<<Prop("A", EmptyObject)>>), Obj(<<Prop("B", Num(<<5>>))>>),
      Obj(<<Prop("B", Num(<<2,5,6>>))>>), Obj(<<Prop("C", Str(<<120>>))>>),
      Obj(<<Prop("D", null)>>), Obj(<<Prop("D", Num(<<5,1,3>>))>>),
      Obj(<<Prop("Z", EmptyObject)>>), EmptyObject,
      Obj(<<Prop("A", EmptyObject), Prop("B", Num(<<5>>))>>),
      Obj(<<Prop("B", Num(<<5>>)), Prop("A", EmptyObject)>>), null }

\* the i-th declared variant (counted from 0) of the wide enum and a payload
\* of its type
VariantName(i) == "V" \o ToString(i)

VariantSchema(i) == IF i % 3 = 1 THEN b_u8 ELSE IF i % 3 = 2 THEN b_string ELSE b_unit

VariantPayload(i) ==
    IF i % 3 = 1 THEN Num(<<7>>) ELSE IF i % 3 = 2 THEN Str(<<120>>) ELSE EmptyObject

WideEnum == b_enum([i \in 1..NumVariants |-> <<VariantName(i - 1), VariantSchema(i - 1)>>])

WideEnumValues == {Obj(<<Prop(VariantName(i), VariantPayload(i))>>) : i \in 0..(NumVariants - 1)}

TupleSchema == b_tuple(<<b_u8, b_u16>>)

TupleValues ==
    {Arr(items) : items \in SeqsUpTo({Num(<<1>>), Num(<<3,0,0>>), Num(<<7,0,0,0,0>>)},
                                     MaxItems + 1)}
    \cup {null, EmptyObject}

MixedTuple == b_tuple(<<b_string, b_option(b_u8), b_i64>>)

MixedTupleValues ==
    { Arr(<<Str(<<120>>), null, NegBig(<<1>>)>>), Arr(<<Str(<<120>>), Num(<<3>>), Big(<<2>>)>>),
      Arr(<<Str(<<120>>), Num(<<3>>)>>), Arr(<<Str(<<120>>), Num(<<3,0,0>>), Big(<<2>>)>>) }

ArraySchemas == {b_array(b_u8, n) : n \in 0..MaxItems}

ArrayValues ==
    {Arr(items) : items \in SeqsUpTo({Num(<<7>>), Num(<<3,0,0>>)}, MaxItems + 1)}
    \cup {[k |-> "Uint8Array", items |-> <<Num(<<7>>), Num(<<8>>)>>], null}

NestedStruct ==
    b_struct(<<<<"id", b_u16>>, <<"pair", TupleSchema>>, <<"tag", SmallEnum>>,
               <<"xs", b_array(b_u8, 2)>>, <<"f", b_f64>>>>)

NestedValues ==
    {Obj(<<Prop("id", id), Prop("pair", pair), Prop("tag", tag), Prop("xs", xs), Prop("f", f)>>) :
        id \in {Num(<<5,1,3>>), Num(<<7,0,0,0,0>>)},
        pair \in {Arr(<<Num(<<1>>), Num(<<2>>)>>), Arr(<<Num(<<1>>)>>),
                  Arr(<<Num(<<1>>), Num(<<7,0,0,0,0>>)>>)},
        tag \in {Obj(<<Prop("B", Num(<<5>>))>>), Obj(<<Prop("Z", EmptyObject)>>),
                 Obj(<<Prop("B", Num(<<2,5,6>>))>>)},
        xs \in {Arr(<<Num(<<7>>), Num(<<8>>)>>), Arr(<<Num(<<7>>)>>)},
        f \in {Pi, NaN}}

OptionCases ==
    {Case(b_option(b_u8), v) : v \in {null, Num(<<0>>), Num(<<2,5,5>>), Num(<<2,5,6>>), undefined}}
    \cup {Case(b_option(b_string), v) : v \in {null, Str(<<120>>), Str(<<>>)}}
    \cup {Case(b_option(b_option(b_u8)), v) : v \in {null, Num(<<5>>)}}
    \cup {Case(b_option(TupleSchema), v) :
            v \in {null, Arr(<<Num(<<1>>), Num(<<2>>)>>), Arr(<<Num(<<1>>)>>)}}

VecCases ==
    {Case(b_vec(b_u8), [k |-> "Uint8Array", items |-> items]) :
        items \in SeqsUpTo({Num(<<0>>), Num(<<2,5,5>>)}, MaxItems)}
    \cup {Case(b_vec(b_u8), Arr(<<Num(<<1>>), Num(<<2,5,6>>)>>))}
    \cup {Case(b_vec(b_string), Arr(items)) :
            items \in SeqsUpTo({Str(<<>>), Str(<<97>>)}, MaxItems)}
    \cup {Case(b_vec(b_u64), Arr(items)) :
            items \in SeqsUpTo({Big(<<0>>), MaxOf("u64")}, MaxItems)}
    \cup {Case(b_vec(b_i64), [k |-> "BigInt64Array", items |-> <<MinOf("i64"), Big(<<1>>)>>])}
    \cup {Case(b_vec(b_f64), [k |-> "Float64Array", items |-> <<Pi, Num(<<1>>)>>])}
    \cup {Case(b_vec(b_u8), v) : v \in {null, EmptyObject}}

\* the kind of packed buffer that holds elements of the type, "Array" for a
\* type that has none
PackedKind(elementType) ==
    CASE elementType = "u8" -> "Uint8Array"
      [] elementType = "u16" -> "Uint16Array"
      [] elementType = "u32" -> "Uint32Array"
      [] elementType = "u64" -> "BigUint64Array"
      [] elementType = "i8" -> "Int8Array"
      [] elementType = "i16" -> "Int16Array"
      [] elementType = "i32" -> "Int32Array"
      [] elementType = "i64" -> "BigInt64Array"
      [] elementType = "f32" -> "Float32Array"
      [] elementType = "f64" -> "Float64Array"
      [] OTHER -> "Array"

PackedOf(elementType, items) == [k |-> PackedKind(elementType), items |-> items]

\* two values of each numeric element type
NumericElements(sch) ==
    CASE sch.type \in {"f32"} -> {OnePointFive, NegZero}
      [] sch.type \in {"f64"} -> {Pi, NegInfinity}
      [] OTHER -> {MinOf(sch.type), MaxOf(sch.type)}

\* the same elements as a packed buffer and as a generic array
VecFormCases ==
    UNION {{Case(b_vec(sch), v) :
                v \in UNION {{PackedOf(sch.type, items), Arr(items)} :
                                items \in SeqsUpTo(NumericElements(sch), MaxItems)}} :
            sch \in {b_u8, b_u16, b_u32, b_u64, b_i8, b_i16, b_i32, b_i64, b_f32, b_f64}}

\* the sequences without repetition of at most n elements of S
InjectiveSeqs(S, n) == {q \in SeqsUpTo(S, n) : \A i, j \in 1..Len(q) : q[i] = q[j] => i = j}

SetCases ==
    {Case(b_hashSet(b_u8), SetOf(items)) :
        items \in InjectiveSeqs({Num(<<1>>), Num(<<2>>), Num(<<1,0>>)}, MaxItems)}
    \cup {Case(b_hashSet(b_string), SetOf(items)) :
            items \in InjectiveSeqs({Str(<<97>>), Str(<<98>>)}, MaxItems)}

MapCases ==
    {Case(b_hashMap(b_string, b_u8), MapOf(entries)) :
        entries \in {q \in InjectiveSeqs({Entry(Str(<<97>>), Num(<<1>>)),
                                          Entry(Str(<<98>>), Num(<<1>>)),
                                          Entry(Str(<<98>>), Num(<<2,5,6>>))}, MaxItems) :
                        \A i, j \in 1..Len(q) : q[i].key = q[j].key => i = j}}

\* collections of composite elements and of strings that hold commas
PointSchema == b_struct(<<<<"x", b_u8>>>>)

CompositeCases ==
    {Case(b_hashSet(PointSchema), SetOf(items)) :
        items \in InjectiveSeqs({Obj(<<Prop("x", Num(<<1>>))>>), Obj(<<Prop("x", Num(<<2>>))>>)},
                                MaxItems)}
    \cup {Case(b_hashMap(b_string, b_string), MapOf(entries)) :
            entries \in InjectiveSeqs({Entry(Str(<<97>>), Str(<<98, 44, 99>>)),
                                       Entry(Str(<<97, 44, 98>>), Str(<<99>>))}, MaxItems)}
    \cup {Case(b_hashSet(b_u64), SetOf(items)) :
            items \in InjectiveSeqs({Big(<<9>>), Big(<<1,0>>)}, MaxItems)}

\* the largest of a non-empty set of numbers
Greatest(S) == CHOOSE x \in S : \A y \in S : y <= x

\* the object the TypeScript compiler emits for an enum declaration with the
\* members <<name, value>>: every member under its name and, for a numeric
\* member, its name under its value; the keys that are array indices come
\* first, in ascending order, whatever the order they were added in
TsEnum(members) ==
    LET Holders(n) == {i \in 1..Len(members) : members[i][2] = Nat2Num(n)}
        Held(n) == Holders(n) # {}
        keys == SelectSeq([i \in 1..(MaxNumericKey + 1) |-> i - 1], Held)
    IN  Obj([i \in 1..Len(keys) |->
                Prop(ToString(keys[i]), Str(members[Greatest(Holders(keys[i]))][1]))]
            \o [i \in 1..Len(members) |-> Prop(FromCodePoints(members[i][1]), members[i][2])])

RECURSIVE DigitCodePoints(_)
\* the decimal digits of n as code points
DigitCodePoints(n) ==
    IF n < 10 THEN <<48 + n>> ELSE DigitCodePoints(n \div 10) \o <<48 + (n % 10)>>

\* enum NumericEnum { Zero = 0, One = 1, Two = 2, Three = 3 }
NumericEnum ==
    TsEnum(<< <<<<90,101,114,111>>, Num(<<0>>)>>, <<<<79,110,101>>, Num(<<1>>)>>,
              <<<<84,119,111>>, Num(<<2>>)>>, <<<<84,104,114,101,101>>, Num(<<3>>)>> >>)

\* enum ExplicitNumericEnum { Twenty = 20, Thirty = 30, Fifty = 50 }
ExplicitNumericEnum ==
    TsEnum(<< <<<<84,119,101,110,116,121>>, Num(<<2,0>>)>>,
              <<<<84,104,105,114,116,121>>, Num(<<3,0>>)>>,
              <<<<70,105,102,116,121>>, Num(<<5,0>>)>> >>)

\* enum DescendingEnum { High = 2, Low = 0 }
DescendingEnum ==
    TsEnum(<< <<<<72,105,103,104>>, Num(<<2>>)>>, <<<<76,111,119>>, Num(<<0>>)>> >>)

\* enum StringEnum { Red = "RED", Green = "GREEN", Blue = "BLUE" }
StringEnum ==
    TsEnum(<< <<<<82,101,100>>, Str(<<82,69,68>>)>>,
              <<<<71,114,101,101,110>>, Str(<<71,82,69,69,78>>)>>,
              <<<<66,108,117,101>>, Str(<<66,76,85,69>>)>> >>)

\* enum AliasEnum { A = 1, B = 1, C = 2 }
AliasEnum ==
    TsEnum(<< <<<<65>>, Num(<<1>>)>>, <<<<66>>, Num(<<1>>)>>, <<<<67>>, Num(<<2>>)>> >>)

\* { String: "string-value", Number: 42 }
HeterogeneousObj ==
    Obj(<<Prop("String", Str(<<115,116,114,105,110,103,45,118,97,108,117,101>>)),
          Prop("Number", Num(<<4,2>>))>>)

\* enum MixedEnum { No = 0, Yes = "YES" }
MixedEnum ==
    TsEnum(<< <<<<78,111>>, Num(<<0>>)>>, <<<<89,101,115>>, Str(<<89,69,83>>)>> >>)

\* Variant0 = 0, ..., Variant(n-1) = n - 1, with the reverse mapping
LargeEnum(n) ==
    TsEnum([i \in 1..n |-> <<<<86,97,114,105,97,110,116>> \o DigitCodePoints(i - 1),
                             Nat2Num(i - 1)>>])

FullEnum == LargeEnum(MaxNativeEnumLabels)

OverfullEnum == LargeEnum(MaxNativeEnumLabels + 1)

EnumObjects ==
    {NumericEnum, ExplicitNumericEnum, DescendingEnum, StringEnum, AliasEnum,
     HeterogeneousObj, MixedEnum, FullEnum, OverfullEnum}

\* the schemas b.nativeEnum returns for them
NativeEnumSchemas ==
    {b_nativeEnum(o).schema : o \in {e \in EnumObjects : b_nativeEnum(e).err = ""}}

\* the values of the first three labels and of the last label of the enum
\* object
LabelValues(enumObj) ==
    LET enumEntries == EnumEntries(enumObj)
    IN  {enumEntries[i].val : i \in {1, 2, 3, Len(enumEntries)} \cap 1..Len(enumEntries)}

\* the values of the labels, and values that are no label's value: numbers,
\* strings, a label's name, a reverse key and the nullish values
NativeEnumCases ==
    {Case(sch, v) : sch \in NativeEnumSchemas,
                    v \in {Num(<<9,9>>), Num(<<2,5,5>>), Str(<<105,110,118,97,108,105,100>>),
                           Str(<<90,101,114,111>>), Str(<<48>>), null, undefined}}
    \cup UNION {{Case(sch, v) : v \in LabelValues(sch.options.enumObj)} :
                    sch \in NativeEnumSchemas}

Cases ==
    PrimitiveCases
    \cup {Case(StructSchema, v) : v \in StructValues}
    \cup {Case(NestedStruct, v) : v \in NestedValues}
    \cup {Case(SmallEnum, v) : v \in SmallEnumValues}
    \cup {Case(WideEnum, v) : v \in WideEnumValues}
    \cup {Case(TupleSchema, v) : v \in TupleValues}
    \cup {Case(MixedTuple, v) : v \in MixedTupleValues}
    \cup {Case(sch, v) : sch \in ArraySchemas, v \in ArrayValues}
    \cup OptionCases \cup VecCases \cup VecFormCases \cup SetCases \cup MapCases
    \cup CompositeCases
    \cup NativeEnumCases
    \cup {Case(b_array(b_string, 1), Arr(<<Str(<<97>>)>>)),
          Case(b_array(b_i64, 1), Arr(<<MinOf("i64")>>)),
          Case(b_array(b_f32, 1), Arr(<<OnePointFive>>))}

\* byte sequences that no serialize call of the model returns, given to
\* deserialize as they are
RawCases ==
    {Case(sch, bs) : sch \in {b_option(b_u8), b_option(b_string)},
                     bs \in SeqsUpTo({0, 1, 2, 255}, MaxItems)}
    \cup {Case(SmallEnum, bs) : bs \in SeqsUpTo({0, 1, 4, 255}, MaxItems)}
    \cup {Case(b_string, bs) : bs \in {<<>>, <<1, 0, 0>>, <<2, 0, 0, 0, 97>>, <<1, 0, 0, 0, 255>>,
                                        <<3, 0, 0, 0, 239, 187, 191>>}}
    \cup {Case(b_bool, bs) : bs \in {<<0>>, <<1>>}}
    \cup {Case(sch, bs) : sch \in NativeEnumSchemas,
                     bs \in {<<>>, <<0>>, <<2>>, <<3>>, <<4>>, <<254>>, <<255>>, <<1, 7>>}}
    \cup {Case(sch, bs) : sch \in {b_vec(b_u8), b_hashSet(b_u8), b_hashMap(b_u8, b_u8)},
                     bs \in {<<>>, <<0, 0, 0>>, <<0, 0, 0, 0>>, <<1, 0, 0, 0>>, <<1, 0, 0, 0, 7>>,
                             <<2, 0, 0, 0, 5, 5>>, <<2, 0, 0, 0, 7, 8, 9>>,
                             <<2, 0, 0, 0, 1, 2, 3, 4>>, <<2, 0, 0, 0, 1, 2, 1, 4>>,
                             <<2, 0, 0, 0, 1, 2, 3, 4, 9>>, <<3, 0, 0, 0, 1, 2, 3, 4, 5>>,
                             <<0, 1, 0, 0, 1, 2>>}}

-----------------------------------------------------------------------------
(* The calls.  Every call of serialize and deserialize starts from a new    *)
(* writer or reader; the state holds the last call and what it left.       *)

NoWriter == NewWriter(0)
NoReader == NewReader(<<>>)

Init ==
    /\ handlers = LoadedHandlers
    /\ op = "load"
    /\ schema = Schema("unit", null)
    /\ value = undefined
    /\ writer = NoWriter
    /\ thrown = ""
    /\ bytes = <<>>
    /\ reader = NoReader
    /\ decoded = undefined
    /\ arg = undefined

\* bytes = schema.serialize(value)
Serialize ==
    /\ op = "load"
    /\ \E c \in Cases :
        LET w == serialize(c.schema, c.value)
        IN  /\ op' = "serialize"
            /\ schema' = c.schema
            /\ value' = c.value
            /\ writer' = w
            /\ thrown' = w.err
            /\ bytes' = IF w.err = "" THEN getBuffer(w) ELSE <<>>
    /\ UNCHANGED <<handlers, reader, decoded, arg>>

\* decoded = schema.deserialize(bytes), of the bytes serialize returned
Deserialize ==
    /\ op = "serialize"
    /\ thrown = ""
    /\ LET x == deserialize(schema, bytes)
       IN  /\ op' = "deserialize"
           /\ reader' = x.reader
           /\ thrown' = x.reader.err
           /\ decoded' = IF x.reader.err = "" THEN x.value ELSE undefined
    /\ UNCHANGED <<handlers, schema, value, writer, bytes, arg>>

\* decoded = schema.deserialize(bytes), of bytes from elsewhere
DeserializeRaw ==
    /\ op = "load"
    /\ \E c \in RawCases :
        LET x == deserialize(c.schema, c.value)
        IN  /\ op' = "deserializeRaw"
            /\ schema' = c.schema
            /\ bytes' = c.value
            /\ reader' = x.reader
            /\ thrown' = x.reader.err
            /\ decoded' = IF x.reader.err = "" THEN x.value ELSE undefined
    /\ UNCHANGED <<handlers, value, writer, arg>>

\* schema = b.nativeEnum(value)
BuildNativeEnum ==
    /\ op = "load"
    /\ \E enumObj \in EnumObjects :
        LET built == b_nativeEnum(enumObj)
        IN  /\ op' = "nativeEnum"
            /\ value' = enumObj
            /\ thrown' = built.err
            /\ schema' = IF built.err = "" THEN built.schema ELSE schema
    /\ UNCHANGED <<handlers, writer, bytes, reader, decoded, arg>>

\* decoded = schema.deserialize(bytes.slice(0, n)), n < bytes.length, of the
\* bytes serialize returned; writer keeps the whole of them
DeserializePrefix ==
    /\ op = "serialize"
    /\ thrown = ""
    /\ \E n \in 0..Len(bytes) - 1 :
        LET x == deserialize(schema, Take(bytes, n))
        IN  /\ op' = "deserializePrefix"
            /\ bytes' = Take(bytes, n)
            /\ reader' = x.reader
            /\ thrown' = x.reader.err
            /\ decoded' = IF x.reader.err = "" THEN x.value ELSE undefined
    /\ UNCHANGED <<handlers, schema, value, writer, arg>>

Next == Serialize \/ Deserialize \/ DeserializeRaw \/ BuildNativeEnum \/ DeserializePrefix

Spec == Init /\ [][Next]_vars

-----------------------------------------------------------------------------
(* What the properties below are stated with: the declared domain of a     *)
(* schema and structural equality of values.                               *)

\* min(t) <= v <= max(t), v of the runtime type of t
InIntegerRange(t, v) ==
    /\ v.k = KindOf(t)
    /\ ~IntLt(v, MinOf(t))
    /\ ~IntGt(v, MaxOf(t))

\* a number that binary32 holds exactly
IsFloat32(v) ==
    \/ v.k = "number" /\ Len(v.mag) <= 3
    \/ /\ v.k = "double"
       /\ ~IsNaNDouble(v)
       /\ \/ IsInfDouble(v)
          \/ IsZeroDouble(v)
          \/ v.exp >= 897 /\ v.exp <= 1150 /\ AllZero(SubSeq(v.frac, 24, 52))

IsWellFormed(cps) == \A i \in 1..Len(cps) : ~IsSurrogate(cps[i])

RECURSIVE InDomain(_, _, _)
\* v is a value of the schema [type, options]
InDomain(type, options, v) ==
    CASE type \in IntegerTags -> InIntegerRange(type, v)
      [] type = "f64" -> v.k = "number" \/ (v.k = "double" /\ ~IsNaNDouble(v))
      [] type = "f32" -> IsFloat32(v)
      [] type = "bool" -> v.k = "boolean"
      [] type = "string" -> v.k = "string" /\ IsWellFormed(v.cps)
      [] type = "unit" -> v = EmptyObject
      [] type = "option" ->
            v.k = "null" \/ InDomain(options.valueType, options.valueOptions, v)
      [] type = "vec" ->
            /\ v.k = VecResultKind(options.elementType)
            /\ \A i \in 1..Len(v.items) :
                    InDomain(options.elementType, options.elementOptions, v.items[i])
      [] type = "array" ->
            /\ v.k = "Array"
            /\ Len(v.items) = options.length
            /\ \A i \in 1..Len(v.items) :
                    InDomain(options.elementType, options.elementOptions, v.items[i])
      [] type = "tuple" ->
            /\ v.k = "Array"
            /\ Len(v.items) = Len(options.items)
            /\ \A i \in 1..Len(v.items) :
                    InDomain(options.items[i].type, options.items[i].options, v.items[i])
      [] type = "struct" ->
            /\ v.k = "object"
            /\ Len(v.props) = Len(options.props)
            /\ \A i \in 1..Len(options.props) :
                    /\ HasProp(v, options.props[i].name)
                    /\ InDomain(options.props[i].val.type, options.props[i].val.options,
                                PropGet(v, options.props[i].name))
      [] type = "enum" ->
            /\ v.k = "object"
            /\ Len(v.props) = 1
            /\ \E i \in 1..Len(options.variants) :
                    /\ options.variants[i].name = v.props[1].name
                    /\ InDomain(options.variants[i].type, options.variants[i].options,
                                v.props[1].val)
      [] type = "set" ->
            /\ v.k = "Set"
            /\ \A i \in 1..Len(v.items) :
                    InDomain(options.elementType, options.elementOptions, v.items[i])
      [] type = "map" ->
            /\ v.k = "Map"
            /\ \A i \in 1..Len(v.entries) :
                    /\ InDomain(options.keyType, options.keyOptions, v.entries[i].key)
                    /\ InDomain(options.valueType, options.valueOptions, v.entries[i].val)
      [] type = "nativeEnum" ->
            \E i \in 1..Len(EnumEntries(options.enumObj)) :
                EnumEntries(options.enumObj)[i].val = v
      [] OTHER -> FALSE

RECURSIVE StructEq(_, _)
\* structural equality: records whatever the order of their keys, sets and
\* maps whatever the order of their elements, everything else as it is
StructEq(x, y) ==
    IF x.k # y.k THEN FALSE
    ELSE CASE x.k = "object" ->
                /\ Len(x.props) = Len(y.props)
                /\ \A i \in 1..Len(x.props) :
                        /\ HasProp(y, x.props[i].name)
                        /\ StructEq(x.props[i].val, PropGet(y, x.props[i].name))
           [] HasLength(x) ->
                /\ Len(x.items) = Len(y.items)
                /\ \A i \in 1..Len(x.items) : StructEq(x.items[i], y.items[i])
           [] x.k = "Set" ->
                /\ Len(x.items) = Len(y.items)
                /\ \A i \in 1..Len(x.items) : \E j \in 1..Len(y.items) :
                        StructEq(x.items[i], y.items[j])
           [] x.k = "Map" ->
                /\ Len(x.entries) = Len(y.entries)
                /\ \A i \in 1..Len(x.entries) : \E j \in 1..Len(y.entries) :
                        /\ StructEq(x.entries[i].key, y.entries[j].key)
                        /\ StructEq(x.entries[i].val, y.entries[j].val)
           [] OTHER -> x = y

ValueInDomain == InDomain(schema.type, schema.options, value)

-----------------------------------------------------------------------------
(* C1.  For every schema the builder constructs and every value of its     *)
(* declared domain, serialize succeeds and deserialize returns a value     *)
(* structurally equal to the one serialized, of the same integer type and  *)
(* container kind.                                                         *)

C1_RoundTrip ==
    /\ (op = "serialize" /\ ValueInDomain) => thrown = ""
    /\ (op = "deserialize" /\ ValueInDomain) => (thrown = "" /\ StructEq(decoded, value))

-----------------------------------------------------------------------------
(* C2.  For each integer schema, the least and the greatest value of the   *)
(* type serialize and come back unchanged, and the values one below and    *)
(* one above them make serialize fail without returning bytes.             *)

AtBoundary == value \in {MinOf(schema.type), MaxOf(schema.type)}

PastBoundary ==
    value \in { IntAdd(MinOf(schema.type), IntNeg(One(KindOf(schema.type)))),
                IntAdd(MaxOf(schema.type), One(KindOf(schema.type))) }

C2_IntegerBoundaries ==
    schema.type \in IntegerTags =>
        /\ (op = "serialize" /\ AtBoundary) => (thrown = "" /\ Len(bytes) * 8 = WidthOf(schema.type))
        /\ (op = "deserialize" /\ AtBoundary) => (thrown = "" /\ decoded = value)
        /\ (op = "serialize" /\ PastBoundary) => (thrown # "" /\ bytes = <<>>)

C2_Witness ==
    /\ op = "deserialize"
    /\ schema.type = "i128"
    /\ value = MinOf("i128")
    /\ decoded = value

-----------------------------------------------------------------------------
(* C3.  A write that a handler rejects leaves the writer as it was when    *)
(* that write began: a value rejected by the schema's own handler leaves   *)
(* nothing written, and in a struct or tuple whose field is rejected the   *)
(* writer holds the bytes of the fields before it and nothing of the       *)
(* rejected field.                                                         *)

\* the handler of the schema sch itself is the one that rejects val
RejectsItself(sch, val) ==
    \/ sch.type \in IntegerTags /\ ~InIntegerRange(sch.type, val)
    \/ sch.type = "f64" /\ val = NaN
    \/ sch.type = "array" /\ HasLength(val) /\ Len(val.items) # sch.options.length
    \/ sch.type = "tuple" /\ HasLength(val) /\ Len(val.items) # Len(sch.options.items)
    \/ /\ sch.type = "enum"
       /\ val.k = "object"
       /\ val.props # <<>>
       /\ \A i \in 1..Len(sch.options.variants) :
            sch.options.variants[i].name # val.props[1].name

\* the fields of a struct or tuple value, each with its schema, in
\* declaration order
FieldsOf(sch, val) ==
    IF sch.type = "struct"
    THEN [i \in 1..Len(sch.options.props) |->
            [schema |-> Schema(sch.options.props[i].val.type, sch.options.props[i].val.options),
             value |-> PropGet(val, sch.options.props[i].name)]]
    ELSE [i \in 1..Len(sch.options.items) |->
            [schema |-> Schema(sch.options.items[i].type, sch.options.items[i].options),
             value |-> val.items[i]]]

HasFields(sch, val) ==
    \/ sch.type = "struct" /\ val.k = "object"
    \/ sch.type = "tuple" /\ val.k = "Array" /\ Len(val.items) = Len(sch.options.items)

\* the first field that is rejected by its own handler, all fields before it
\* being accepted; 0 when there is none
FirstRejected(fields) ==
    IF \E j \in 1..Len(fields) :
            /\ RejectsItself(fields[j].schema, fields[j].value)
            /\ \A i \in 1..(j - 1) : serialize(fields[i].schema, fields[i].value).err = ""
    THEN CHOOSE j \in 1..Len(fields) :
            /\ RejectsItself(fields[j].schema, fields[j].value)
            /\ \A i \in 1..(j - 1) : serialize(fields[i].schema, fields[i].value).err = ""
    ELSE 0

\* the encodings of the fields before the j-th
EarlierFields(fields, j) ==
    Concat([i \in 1..(j - 1) |-> getBuffer(serialize(fields[i].schema, fields[i].value))])

C3_RejectedWriteLeavesWriter ==
    (op = "serialize" /\ thrown # "") =>
        /\ RejectsItself(schema, value) => (writer.offset = 0 /\ getBuffer(writer) = <<>>)
        /\ (HasFields(schema, value) /\ FirstRejected(FieldsOf(schema, value)) # 0) =>
                LET fields == FieldsOf(schema, value)
                    earlier == EarlierFields(fields, FirstRejected(fields))
                IN  /\ writer.offset = Len(earlier)
                    /\ getBuffer(writer) = earlier

C3_Witness ==
    /\ op = "serialize"
    /\ schema = NestedStruct
    /\ thrown = NaNMsg
    /\ FirstRejected(FieldsOf(schema, value)) = 5
    /\ writer.offset = 9

-----------------------------------------------------------------------------
(* BinaryWriter used directly: a writer of some initial size and the calls *)
(* made on it one after another.  arg holds the writer as the last call    *)
(* found it and the number of calls made; an exception ends the call that  *)
(* raised it, not the writer.                                              *)

MaxWrites == 2

InitialSizes == {0, 1, 2, 16}

NumberArgs == {Num(<<2,0,0>>), Num(<<2,5,6>>), NegNum(<<1>>), Num(<<4,2,9,4,9,6,7,2,9,6>>)}

BigArgs ==
    { Big(<<2,0,0>>), NegBig(<<1>>), MkInt("bigint", FALSE, Pow2(64)),
      MkInt("bigint", FALSE, Pow2(128)), MkInt("bigint", TRUE, AddMag(Pow2(127), <<1>>)) }

FloatArgs == {Pi, NaN, Num(<<1>>)}

StringArgs == {Str(<<>>), Str(<<97, 8364>>)}

WriterMethods ==
    {"writeUint8", "writeUint16", "writeUint32", "writeUint64", "writeUint128",
     "writeInt8", "writeInt16", "writeInt32", "writeInt64", "writeInt128",
     "writeFloat32", "writeFloat64", "writeString"}

\* writer.method(val)
CallWriter(method, w, val) ==
    CASE method = "writeUint8" -> writeUint8(w, val)
      [] method = "writeUint16" -> writeUint16(w, val)
      [] method = "writeUint32" -> writeUint32(w, val)
      [] method = "writeUint64" -> writeUint64(w, val)
      [] method = "writeUint128" -> writeUint128(w, val)
      [] method = "writeInt8" -> writeInt8(w, val)
      [] method = "writeInt16" -> writeInt16(w, val)
      [] method = "writeInt32" -> writeInt32(w, val)
      [] method = "writeInt64" -> writeInt64(w, val)
      [] method = "writeInt128" -> writeInt128(w, val)
      [] method = "writeFloat32" -> writeFloat32(w, val)
      [] method = "writeFloat64" -> writeFloat64(w, val)
      [] method = "writeString" -> writeString(w, val)

InitIO ==
    /\ handlers = LoadedHandlers
    /\ op = "new BinaryWriter"
    /\ schema = Schema("unit", null)
    /\ value = undefined
    /\ \E initialSize \in InitialSizes : writer = NewWriter(initialSize)
    /\ thrown = ""
    /\ bytes = <<>>
    /\ reader = NoReader
    /\ decoded = undefined
    /\ arg = [k |-> "call", before |-> writer, calls |-> 0, sent |-> <<>>]

\* one call writer.method(val); a call that never returns is the last
Call(method, val) ==
    /\ writer.err # DivergesMsg
    /\ arg.calls < MaxWrites
    /\ LET before == [writer EXCEPT !.err = ""]
           w == CallWriter(method, before, val)
       IN  /\ op' = method
           /\ value' = val
           /\ writer' = w
           /\ thrown' = w.err
           /\ bytes' = getBuffer(w)
           /\ arg' = [k |-> "call", before |-> before, calls |-> arg.calls + 1,
                       sent |-> IF w.err = "" THEN Append(arg.sent, [method |-> method, value |-> val])
                                ELSE arg.sent]
    /\ UNCHANGED <<handlers, schema, reader, decoded>>

WriteUint8 == \E val \in NumberArgs : Call("writeUint8", val)
WriteUint16 == \E val \in NumberArgs : Call("writeUint16", val)
WriteUint32 == \E val \in NumberArgs : Call("writeUint32", val)
WriteUint64 == \E val \in BigArgs : Call("writeUint64", val)
WriteUint128 == \E val \in BigArgs : Call("writeUint128", val)
WriteInt8 == \E val \in NumberArgs : Call("writeInt8", val)
WriteInt16 == \E val \in NumberArgs : Call("writeInt16", val)
WriteInt32 == \E val \in NumberArgs : Call("writeInt32", val)
WriteInt64 == \E val \in BigArgs : Call("writeInt64", val)
WriteInt128 == \E val \in BigArgs : Call("writeInt128", val)
WriteFloat32 == \E val \in FloatArgs : Call("writeFloat32", val)
WriteFloat64 == \E val \in FloatArgs : Call("writeFloat64", val)
WriteString == \E val \in StringArgs : Call("writeString", val)

NextIO ==
    \/ WriteUint8 \/ WriteUint16 \/ WriteUint32 \/ WriteUint64 \/ WriteUint128
    \/ WriteInt8 \/ WriteInt16 \/ WriteInt32 \/ WriteInt64 \/ WriteInt128
    \/ WriteFloat32 \/ WriteFloat64 \/ WriteString

SpecIO == InitIO /\ [][NextIO]_vars

-----------------------------------------------------------------------------
(* C4.  No fixed-width integer write of BinaryWriter truncates silently:   *)
(* given an integer outside the range of its width, writeUintN / writeIntN *)
(* does not append the bytes of the value taken modulo 2^N and advance the *)
(* offset as a successful write does.                                      *)

\* the integer type a writer method writes
MethodTag(method) ==
    CASE method = "writeUint8" -> "u8"
      [] method = "writeUint16" -> "u16"
      [] method = "writeUint32" -> "u32"
      [] method = "writeUint64" -> "u64"
      [] method = "writeUint128" -> "u128"
      [] method = "writeInt8" -> "i8"
      [] method = "writeInt16" -> "i16"
      [] method = "writeInt32" -> "i32"
      [] method = "writeInt64" -> "i64"
      [] method = "writeInt128" -> "i128"
      [] OTHER -> "none"

\* the call in the state was given an integer its width cannot hold
OutsideWidth ==
    /\ MethodTag(op) \in IntegerTags
    /\ value.k = KindOf(MethodTag(op))
    /\ IntLt(value, MinOf(MethodTag(op))) \/ IntGt(value, MaxOf(MethodTag(op)))

\* the call in the state returned, having appended the value modulo 2^N
WroteTruncated ==
    LET n == WidthOf(MethodTag(op)) \div 8
    IN  /\ thrown = ""
        /\ writer.offset = arg.before.offset + n
        /\ SubSeq(writer.buffer, arg.before.offset + 1, writer.offset) = ModBytes(value, n)

C4_NoSilentTruncation == OutsideWidth => ~WroteTruncated

-----------------------------------------------------------------------------
(* C5.  f64().serialize(NaN) fails and returns no bytes; every other       *)
(* number, the infinities and 0 among them, serializes to exactly 8 bytes  *)
(* and deserializes to the same number.                                    *)

C5_Float64 ==
    schema.type = "f64" =>
        /\ (op = "serialize" /\ value = NaN) => (thrown # "" /\ bytes = <<>>)
        /\ (op = "serialize" /\ value # NaN /\ IsNumeric(value)) =>
                (thrown = "" /\ Len(bytes) = 8)
        /\ (op = "deserialize" /\ value # NaN /\ IsNumeric(value)) =>
                (thrown = "" /\ decoded = value)

C5_Witness ==
    /\ op = "deserialize"
    /\ schema.type = "f64"
    /\ value = NegInfinity
    /\ decoded = NegInfinity
    /\ Len(bytes) = 8

-----------------------------------------------------------------------------
(* C6.  For every enum schema and every declared variant, at position i    *)
(* counted from 0, serializing the single-key record {name: payload} gives *)
(* one byte equal to i followed by the payload's own encoding (nothing for *)
(* a unit variant), and deserializing those bytes returns the single-key   *)
(* record naming the same variant.                                         *)

\* the position (from 0) at which the enum schema declares the variant name
PositionOf(sch, name) ==
    (CHOOSE i \in 1..Len(sch.options.variants) : sch.options.variants[i].name = name) - 1

\* the encoding of the payload of the variant declared at position i
PayloadBytes(sch, i, payload) ==
    LET variant == sch.options.variants[i + 1]
    IN  IF variant.type = "unit" THEN <<>>
        ELSE getBuffer(serialize(Schema(variant.type, variant.options), payload))

C6_EnumEncoding ==
    (schema.type = "enum" /\ ValueInDomain) =>
        LET name == value.props[1].name
            i == PositionOf(schema, name)
        IN  /\ op = "serialize" =>
                /\ thrown = ""
                /\ bytes = <<i>> \o PayloadBytes(schema, i, value.props[1].val)
            /\ op = "deserialize" =>
                /\ thrown = ""
                /\ decoded.k = "object"
                /\ ObjectKeys(decoded) = <<name>>

-----------------------------------------------------------------------------
(* C7.  An option schema serializes null to the one byte 0 and a present   *)
(* value to the byte 1 followed by the inner schema's encoding of it; its  *)
(* read consumes one discriminator byte, reads and returns the payload     *)
(* only when that byte is 1, and for every other byte returns null with    *)
(* nothing more consumed.                                                  *)

InnerSchema == Schema(schema.options.valueType, schema.options.valueOptions)

C7_Option ==
    schema.type = "option" =>
        /\ (op = "serialize" /\ value = null) => (thrown = "" /\ bytes = <<0>>)
        /\ (op = "serialize" /\ value # null /\ ValueInDomain) =>
                /\ thrown = ""
                /\ bytes = <<1>> \o getBuffer(serialize(InnerSchema, value))
        /\ (op \in {"deserialize", "deserializeRaw"} /\ bytes # <<>>) =>
                IF bytes[1] = 1
                THEN LET inner == deserialize(InnerSchema, Tail(bytes))
                     IN  /\ thrown = inner.reader.err
                         /\ reader.offset = 1 + inner.reader.offset
                         /\ thrown = "" => decoded = inner.value
                ELSE /\ thrown = ""
                     /\ decoded = null
                     /\ reader.offset = 1

C7_Witness ==
    /\ op = "deserializeRaw"
    /\ schema = b_option(b_u8)
    /\ bytes = <<2, 255>>
    /\ decoded = null
    /\ reader.offset = 1

-----------------------------------------------------------------------------
(* C8.  Two records that hold the same value for every field a struct      *)
(* schema declares serialize to the same bytes whatever the order of their *)
(* keys.                                                                   *)

\* v and w are records with the same value for every declared field
SameFields(sch, v, w) ==
    /\ v.k = "object"
    /\ w.k = "object"
    /\ \A i \in 1..Len(sch.options.props) :
            PropGet(v, sch.options.props[i].name) = PropGet(w, sch.options.props[i].name)

C8_KeyOrder ==
    (op = "serialize" /\ schema = StructSchema) =>
        \A other \in StructValues :
            SameFields(schema, value, other) =>
                LET w == serialize(schema, other)
                IN  /\ w.err = thrown
                    /\ thrown = "" => getBuffer(w) = bytes

C8_Witness ==
    /\ op = "serialize"
    /\ schema = StructSchema
    /\ thrown = ""
    /\ ObjectKeys(value) = <<"c", "b", "a">>
    /\ bytes = <<1, 1, 0, 0, 0, 120, 254, 255>>

-----------------------------------------------------------------------------
(* C9.  array(elem, n).serialize(v) fails when the length of v is not n,   *)
(* and tuple(e1..ek).serialize(v) fails when v does not have k elements;   *)
(* the failure is the length-mismatch error and no element has been        *)
(* written when it is raised.                                              *)

C9_LengthMismatch ==
    (op = "serialize" /\ HasLength(value)) =>
        /\ (schema.type = "array" /\ Len(value.items) # schema.options.length) =>
                /\ thrown = ArrayMismatchMsg(schema.options.length, Len(value.items))
                /\ writer.offset = 0
                /\ bytes = <<>>
        /\ (schema.type = "tuple" /\ Len(value.items) # Len(schema.options.items)) =>
                /\ thrown = TupleMismatchMsg(Len(schema.options.items), Len(value.items))
                /\ writer.offset = 0
                /\ bytes = <<>>

C9_Witness ==
    /\ op = "serialize"
    /\ schema = b_array(b_u8, 2)
    /\ value = Arr(<<Num(<<7>>), Num(<<7>>), Num(<<7>>)>>)
    /\ thrown = "Array length mismatch: expected 2, got 3"
    /\ writer.offset = 0

-----------------------------------------------------------------------------
(* TypeRegistry used directly: a new registry, register calls and          *)
(* getHandler calls.  arg holds the register calls made so far, in order;  *)
(* a getHandler call leaves the tag asked for in schema.type and the       *)
(* handler returned in decoded.                                            *)

MaxRegisters == 3

RegistryTags == {"u8", "string", "custom"}

HandlerNames == {"u8", "string", "custom"}

AskedTags == RegistryTags \cup {"nonexistent-type"}

\* new TypeRegistry(): no handler for any tag
NewRegistry == [t \in TagUniverse |-> ""]

InitRegistry ==
    /\ handlers = NewRegistry
    /\ op = "new TypeRegistry"
    /\ schema = Schema("unit", null)
    /\ value = undefined
    /\ writer = NoWriter
    /\ thrown = ""
    /\ bytes = <<>>
    /\ reader = NoReader
    /\ decoded = undefined
    /\ arg = <<>>

\* registry.register(type, handler)
Register ==
    /\ Len(arg) < MaxRegisters
    /\ \E type \in RegistryTags, handler \in HandlerNames :
        /\ handlers' = register(handlers, type, handler)
        /\ arg' = Append(arg, [type |-> type, handler |-> handler])
        /\ schema' = Schema(type, null)
    /\ op' = "register"
    /\ thrown' = ""
    /\ decoded' = undefined
    /\ UNCHANGED <<value, writer, bytes, reader>>

\* decoded = registry.getHandler(type)
GetHandler ==
    /\ \E type \in AskedTags :
        LET g == getHandler(handlers, type)
        IN  /\ schema' = Schema(type, null)
            /\ thrown' = g.err
            /\ decoded' = IF g.err = "" THEN [k |-> "handler", name |-> g.handler]
                          ELSE undefined
    /\ op' = "getHandler"
    /\ UNCHANGED <<handlers, value, writer, bytes, reader, arg>>

NextRegistry == Register \/ GetHandler

SpecRegistry == InitRegistry /\ [][NextRegistry]_vars

-----------------------------------------------------------------------------
(* C10.  After any sequence of register calls, getHandler(t) returns the   *)
(* handler of the most recent register call for t, a register call for one *)
(* tag leaves the handler of every other tag as it was, and getHandler of  *)
(* a tag never registered fails with an error whose message names the tag. *)

\* the handler of the last register call for t among calls, "" if none
LastRegistered(calls, t) ==
    IF \E i \in 1..Len(calls) : calls[i].type = t
    THEN calls[CHOOSE i \in 1..Len(calls) :
                    /\ calls[i].type = t
                    /\ \A j \in (i + 1)..Len(calls) : calls[j].type # t].handler
    ELSE ""

C10_Registry ==
    /\ \A t \in TagUniverse :
        LET g == getHandler(handlers, t)
            last == LastRegistered(arg, t)
        IN  IF last = "" THEN g.err = "No handler registered for type: " \o t
            ELSE g.err = "" /\ g.handler = last
    /\ op = "getHandler" =>
        LET last == LastRegistered(arg, schema.type)
        IN  IF last = "" THEN thrown = "No handler registered for type: " \o schema.type
                              /\ decoded = undefined
            ELSE thrown = "" /\ decoded.name = last

C10_Witness ==
    /\ op = "getHandler"
    /\ Len(arg) = 3
    /\ arg[1].type = schema.type
    /\ arg[3].type = schema.type
    /\ arg[2].type # schema.type
    /\ arg[1].handler # arg[3].handler
    /\ decoded # undefined
    /\ decoded.name = arg[3].handler

-----------------------------------------------------------------------------
(* C11.  A lookup of an unknown variant fails with an error and gives no   *)
(* default: enum write of a record whose key is no declared variant name   *)
(* fails naming the key, enum read of a discriminator byte that is no      *)
(* declared index fails naming the index, nativeEnum write of a value that *)
(* is no declared label's value fails, and nativeEnum read of a byte that  *)
(* is no declared index fails naming the index.                            *)

\* the variant names an enum schema declares
DeclaredNames(sch) ==
    {sch.options.variants[i].name : i \in 1..Len(sch.options.variants)}

\* the indices an enum schema declares
DeclaredIndices(sch) ==
    {sch.options.variants[i].index : i \in 1..Len(sch.options.variants)}

\* the number of labels of a nativeEnum schema
LabelCount(sch) == Len(EnumEntries(sch.options.enumObj))

C11_UnknownVariant ==
    /\ ( /\ op = "serialize"
         /\ schema.type = "enum"
         /\ value.k = "object"
         /\ value.props # <<>>
         /\ value.props[1].name \notin DeclaredNames(schema) ) =>
            /\ thrown = "Unknown enum variant: " \o value.props[1].name
            /\ writer.offset = 0
            /\ bytes = <<>>
    /\ ( /\ op = "deserializeRaw"
         /\ schema.type = "enum"
         /\ bytes # <<>>
         /\ bytes[1] \notin DeclaredIndices(schema) ) =>
            /\ thrown = "Unknown enum variant index: " \o ToString(bytes[1])
            /\ decoded = undefined
    /\ ( /\ op = "serialize"
         /\ schema.type = "nativeEnum"
         /\ ~ValueInDomain ) =>
            /\ thrown # ""
            /\ writer.offset = 0
            /\ bytes = <<>>
    /\ ( /\ op = "deserializeRaw"
         /\ schema.type = "nativeEnum"
         /\ bytes # <<>>
         /\ bytes[1] >= LabelCount(schema) ) =>
            /\ thrown = "Invalid enum index: " \o ToString(bytes[1])
            /\ decoded = undefined

C11_Witness ==
    /\ op = "deserializeRaw"
    /\ schema.type = "nativeEnum"
    /\ schema.options.enumObj = NumericEnum
    /\ bytes = <<4>>
    /\ thrown = "Invalid enum index: 4"

-----------------------------------------------------------------------------
(* C12.  For every schema b.nativeEnum returns, serializing the value of a *)
(* declared label gives exactly one byte, equal to the position of that    *)
(* label in declaration order counted from 0 and not to the value, and     *)
(* deserializing that byte returns the same value.                         *)

\* the positions (from 0) of the labels of the schema that hold the value v
PositionsOf(sch, v) ==
    {i - 1 : i \in {j \in 1..LabelCount(sch) : EnumEntries(sch.options.enumObj)[j].val = v}}

C12_NativeEnum ==
    (schema.type = "nativeEnum" /\ ValueInDomain) =>
        /\ op = "serialize" =>
            /\ thrown = ""
            /\ \A i \in PositionsOf(schema, value) : bytes = <<i>>
        /\ op = "deserialize" =>
            /\ thrown = ""
            /\ decoded = value

-----------------------------------------------------------------------------
(* C13.  b.nativeEnum fails at construction when the declared labels mix   *)
(* string and numeric values and when more than 255 labels are declared;   *)
(* so every index stored in a schema it returns lies in 0..254.            *)

\* the declared labels of an enum object: its properties other than the
\* reverse mappings under numeric keys
DeclaredLabels(enumObj) ==
    SelectSeq(enumObj.props, LAMBDA p : p.name \notin {ToString(n) : n \in 0..MaxNumericKey})

MixesValues(enumObj) ==
    LET labels == DeclaredLabels(enumObj)
    IN  /\ \E i \in 1..Len(labels) : labels[i].val.k = "string"
        /\ \E i \in 1..Len(labels) : labels[i].val.k = "number"

OneByteIndices == {Nat2Num(i) : i \in 0..254}

C13_NativeEnumConstruction ==
    op = "nativeEnum" =>
        /\ MixesValues(value) => thrown # ""
        /\ Len(DeclaredLabels(value)) > 255 => thrown # ""
        /\ value \in {HeterogeneousObj, MixedEnum} => thrown = MixedEnumMsg
        /\ value = OverfullEnum => thrown = TooManyLabelsMsg
        /\ thrown = "" =>
            /\ schema.type = "nativeEnum"
            /\ \A i \in 1..Len(schema.options.valueToIndexMap.entries) :
                    schema.options.valueToIndexMap.entries[i].val \in OneByteIndices
            /\ \A i \in 1..Len(schema.options.indexToValueMap.entries) :
                    schema.options.indexToValueMap.entries[i].key \in OneByteIndices

C13_Witness ==
    /\ op = "nativeEnum"
    /\ value = OverfullEnum
    /\ Len(DeclaredLabels(value)) = 256
    /\ thrown = "Borsh only supports enums with up to 255 variants"

-----------------------------------------------------------------------------
(* C14.  For vec and for array schemas alike, deserialize returns a packed *)
(* numeric buffer of the element's width and signedness when the element   *)
(* type is u8, u16, u32, u64, i8, i16, i32, i64, f32 or f64, and a generic *)
(* sequence for every other element type.                                  *)

C14_PackedBuffers ==
    ( /\ op \in {"deserialize", "deserializeRaw"}
      /\ thrown = ""
      /\ schema.type \in {"vec", "array"} ) =>
        decoded.k = PackedKind(schema.options.elementType)

-----------------------------------------------------------------------------
(* C15.  For a vec schema with a numeric element type, a packed numeric    *)
(* buffer and a generic sequence holding the same elements in the same     *)
(* order serialize to the same bytes: the count as a u32, then the         *)
(* encoding of each element.                                               *)

\* the other form of a packed buffer or generic sequence, same elements
OtherForm(elementType, val) ==
    [k |-> IF val.k = "Array" THEN PackedKind(elementType) ELSE "Array", items |-> val.items]

\* the little-endian encoding of one element of a numeric type
ElementEncoding(elementType, v) ==
    CASE elementType = "f32" -> FloatToBytes(AsDouble(v))
      [] elementType = "f64" -> DoubleToBytes(AsDouble(v))
      [] OTHER -> ModBytes(v, WidthOf(elementType) \div 8)

IsNumericVecCall ==
    /\ op = "serialize"
    /\ schema.type = "vec"
    /\ PackedKind(schema.options.elementType) # "Array"
    /\ value.k \in {"Array", PackedKind(schema.options.elementType)}
    /\ thrown = ""

C15_VecForms ==
    IsNumericVecCall =>
        LET elementType == schema.options.elementType
            other == serialize(schema, OtherForm(elementType, value))
        IN  /\ bytes = ModBytes(Nat2Num(Len(value.items)), 4)
                       \o Concat([i \in 1..Len(value.items) |->
                                    ElementEncoding(elementType, value.items[i])])
            /\ other.err = ""
            /\ getBuffer(other) = bytes

C15_Witness ==
    /\ IsNumericVecCall
    /\ value.k = "Uint16Array"
    /\ Len(value.items) = MaxItems
    /\ value.items[1] # value.items[2]

-----------------------------------------------------------------------------
(* C16.  After any sequence of BinaryWriter writes, getBuffer() returns    *)
(* exactly the bytes written so far: its length is the sum of the widths   *)
(* of the writes made, its content the concatenation of their encodings in *)
(* call order, with no excess capacity; growing the internal buffer leaves *)
(* the bytes written earlier as they were, and the offset never exceeds    *)
(* the capacity.                                                           *)

\* the bytes one returned call writer.method(value) stands for
EncodingOf(call) ==
    CASE call.method = "writeFloat32" -> FloatToBytes(AsDouble(call.value))
      [] call.method = "writeFloat64" -> DoubleToBytes(AsDouble(call.value))
      [] call.method = "writeString" ->
            LET utf8 == TextEncode(EncoderInput(call.value))
            IN  ModBytes(Nat2Num(Len(utf8)), 4) \o utf8
      [] OTHER -> ModBytes(call.value, WidthOf(MethodTag(call.method)) \div 8)

\* the number of bytes the call appends
WidthOfCall(call) ==
    CASE call.method \in {"writeFloat32"} -> 4
      [] call.method \in {"writeFloat64"} -> 8
      [] call.method = "writeString" -> 4 + Len(TextEncode(EncoderInput(call.value)))
      [] OTHER -> WidthOf(MethodTag(call.method)) \div 8

RECURSIVE SumOfWidths(_)
SumOfWidths(calls) ==
    IF calls = <<>> THEN 0 ELSE WidthOfCall(Head(calls)) + SumOfWidths(Tail(calls))

C16_WriterBuffer ==
    /\ Len(getBuffer(writer)) = SumOfWidths(arg.sent)
    /\ getBuffer(writer) = Concat([i \in 1..Len(arg.sent) |-> EncodingOf(arg.sent[i])])
    /\ Take(writer.buffer, arg.before.offset) = getBuffer(arg.before)
    /\ writer.offset <= Len(writer.buffer)
    /\ bytes = getBuffer(writer)

\* the second of two returned calls made the buffer grow
C16_Witness ==
    /\ Len(arg.sent) = MaxWrites
    /\ thrown = ""
    /\ arg.before.offset > 0
    /\ Len(writer.buffer) > Len(arg.before.buffer)
    /\ writer.offset < Len(writer.buffer)

-----------------------------------------------------------------------------
(* BinaryReader used directly: a reader over the bytes a writer returned   *)
(* and the read calls made on it one after another.  arg holds the write   *)
(* calls behind the bytes, the reader as the last read found it and the    *)
(* number of reads made; an exception ends the read that raised it, not    *)
(* the reader.                                                             *)

MaxReads == 2

ReaderMethods ==
    {"readUint8", "readUint16", "readUint32", "readUint64", "readUint128",
     "readInt8", "readInt16", "readInt32", "readInt64", "readInt128",
     "readFloat32", "readFloat64", "readString"}

\* reader.method()
CallReader(method, r) ==
    CASE method = "readUint8" -> readUint8(r)
      [] method = "readUint16" -> readUint16(r)
      [] method = "readUint32" -> readUint32(r)
      [] method = "readUint64" -> readUint64(r)
      [] method = "readUint128" -> readUint128(r)
      [] method = "readInt8" -> readInt8(r)
      [] method = "readInt16" -> readInt16(r)
      [] method = "readInt32" -> readInt32(r)
      [] method = "readInt64" -> readInt64(r)
      [] method = "readInt128" -> readInt128(r)
      [] method = "readFloat32" -> readFloat32(r)
      [] method = "readFloat64" -> readFloat64(r)
      [] method = "readString" -> readString(r)

\* the writer method of an integer type
WriteMethodOf(t) == CHOOSE method \in WriterMethods : MethodTag(method) = t

Sent(method, val) == [method |-> method, value |-> val]

\* values of the 128-bit types around the boundary of the two limbs
LimbValues(t) ==
    LET two64 == MkInt("bigint", FALSE, Pow2(64))
        one == One("bigint")
    IN  {MinOf(t), MaxOf(t), one, two64, IntAdd(two64, IntNeg(one)), IntAdd(two64, one)}
        \cup (IF IsSignedTag(t)
              THEN {IntNeg(one), IntNeg(two64), IntAdd(IntNeg(two64), one),
                    IntAdd(IntNeg(two64), IntNeg(one))}
              ELSE {})

ReaderStrings ==
    {Str(cps) : cps \in SeqsUpTo(CodePoints, 1)
                        \cup {<<97, 8364>>, <<65279, 97>>, <<97, 65279>>, <<128512, 233>>}}

\* write calls with values of the written type
SentCalls ==
    UNION {{Sent(WriteMethodOf(t), v) :
                v \in {MinOf(t), MaxOf(t), One(KindOf(t))}
                      \cup (IF WidthOf(t) = 128 THEN LimbValues(t) ELSE {})} :
            t \in IntegerTags}
    \cup {Sent("writeFloat32", OnePointFive), Sent("writeFloat64", Pi),
          Sent("writeFloat64", NaN)}
    \cup {Sent("writeString", v) : v \in ReaderStrings}

\* new BinaryReader(writer.getBuffer()), after no write call or one
InitReader ==
    /\ handlers = LoadedHandlers
    /\ op = "new BinaryReader"
    /\ schema = Schema("unit", null)
    /\ value = undefined
    /\ \E sent \in {<<>>} \cup {<<call>> : call \in SentCalls} :
        /\ writer = IF sent = <<>> THEN NewWriter(16)
                    ELSE CallWriter(sent[1].method, NewWriter(16), sent[1].value)
        /\ arg = [k |-> "read", sent |-> sent, before |-> NewReader(getBuffer(writer)),
                  reads |-> 0]
    /\ thrown = ""
    /\ bytes = getBuffer(writer)
    /\ reader = NewReader(bytes)
    /\ decoded = undefined

\* decoded = reader.method()
ReadCall(method) ==
    /\ arg.reads < MaxReads
    /\ LET before == [reader EXCEPT !.err = ""]
           x == CallReader(method, before)
       IN  /\ op' = method
           /\ reader' = x.reader
           /\ thrown' = x.reader.err
           /\ decoded' = x.value
           /\ arg' = [arg EXCEPT !.before = before, !.reads = arg.reads + 1]
    /\ UNCHANGED <<handlers, schema, value, writer, bytes>>

ReadUint8 == ReadCall("readUint8")
ReadUint16 == ReadCall("readUint16")
ReadUint32 == ReadCall("readUint32")
ReadUint64 == ReadCall("readUint64")
ReadUint128 == ReadCall("readUint128")
ReadInt8 == ReadCall("readInt8")
ReadInt16 == ReadCall("readInt16")
ReadInt32 == ReadCall("readInt32")
ReadInt64 == ReadCall("readInt64")
ReadInt128 == ReadCall("readInt128")
ReadFloat32 == ReadCall("readFloat32")
ReadFloat64 == ReadCall("readFloat64")
ReadString == ReadCall("readString")

NextReader ==
    \/ ReadUint8 \/ ReadUint16 \/ ReadUint32 \/ ReadUint64 \/ ReadUint128
    \/ ReadInt8 \/ ReadInt16 \/ ReadInt32 \/ ReadInt64 \/ ReadInt128
    \/ ReadFloat32 \/ ReadFloat64 \/ ReadString

SpecReader == InitReader /\ [][NextReader]_vars

-----------------------------------------------------------------------------
(* C17.  A BinaryReader starts at offset 0; each successful fixed-width    *)
(* read advances getOffset() by exactly its width (u8/i8 1, u16/i16 2,     *)
(* u32/i32/f32 4, u64/i64/f64 8, u128/i128 16); a fixed-width read issued  *)
(* when fewer bytes than its width remain fails with an out-of-bounds      *)
(* error and returns no value.                                             *)

\* the width in bytes of a fixed-width read, 0 for readString
ReadWidth(method) ==
    CASE method \in {"readUint8", "readInt8"} -> 1
      [] method \in {"readUint16", "readInt16"} -> 2
      [] method \in {"readUint32", "readInt32", "readFloat32"} -> 4
      [] method \in {"readUint64", "readInt64", "readFloat64"} -> 8
      [] method \in {"readUint128", "readInt128"} -> 16
      [] OTHER -> 0

Remaining(r) == Len(r.buffer) - getOffset(r)

C17_ReaderCursor ==
    /\ op = "new BinaryReader" => getOffset(reader) = 0
    /\ ReadWidth(op) > 0 =>
        /\ thrown = "" =>
            /\ getOffset(reader) = getOffset(arg.before) + ReadWidth(op)
            /\ decoded # undefined
        /\ Remaining(arg.before) < ReadWidth(op) =>
            /\ thrown = RangeErrorMsg
            /\ decoded = undefined

\* after a read that advanced the offset, a 16-byte read that finds 8 bytes
C17_Witness ==
    /\ ReadWidth(op) = 16
    /\ arg.reads = MaxReads
    /\ getOffset(arg.before) = 8
    /\ Remaining(arg.before) = 8
    /\ thrown = RangeErrorMsg

-----------------------------------------------------------------------------
(* C18.  writeString(s) appends the number of UTF-8 bytes of s as a 4-byte *)
(* little-endian unsigned integer, then exactly those bytes and no         *)
(* terminator, 4 + byteLength(s) bytes in all; readString consumes the     *)
(* prefix and exactly that many bytes and returns s.                       *)

\* the number of bytes of a code point in UTF-8
Utf8Width(cp) == IF cp < 128 THEN 1 ELSE IF cp < 2048 THEN 2 ELSE IF cp < 65536 THEN 3 ELSE 4

RECURSIVE ByteLength(_)
ByteLength(cps) == IF cps = <<>> THEN 0 ELSE Utf8Width(Head(cps)) + ByteLength(Tail(cps))

\* the bytes under the reader are those of one writeString call
WroteString == arg.sent # <<>> /\ arg.sent[1].method = "writeString"

C18_String ==
    WroteString =>
        LET s == arg.sent[1].value
            byteLength == ByteLength(s.cps)
        IN  /\ Len(bytes) = 4 + byteLength
            /\ SubSeq(bytes, 1, 4) = ModBytes(Nat2Num(byteLength), 4)
            /\ SubSeq(bytes, 5, Len(bytes)) = TextEncode(EncoderInput(s))
            /\ (op = "readString" /\ arg.reads = 1) =>
                /\ thrown = ""
                /\ getOffset(reader) = 4 + byteLength
                /\ decoded = s

-----------------------------------------------------------------------------
(* C19.  For v in 0..2^128-1, writeUint128(v), and for v in                *)
(* -2^127..2^127-1, writeInt128(v), appends exactly 16 bytes: the low      *)
(* 64-bit limb v mod 2^64 little-endian, then the high limb                *)
(* floor(v / 2^64) little-endian, in two's complement for the signed       *)
(* variant; readUint128 / readInt128 on those bytes returns exactly v.     *)

\* the bytes under the reader are those of one 128-bit write
Wrote128 == arg.sent # <<>> /\ arg.sent[1].method \in {"writeUint128", "writeInt128"}

\* high * 2^64 + low
FromLimbs(high, low) ==
    IntAdd(MkInt("bigint", high.neg, Zeros(8) \o high.mag), low)

C19_Limbs ==
    Wrote128 =>
        LET v == arg.sent[1].value
            signed == arg.sent[1].method = "writeInt128"
            low == UnsignedOf("bigint", SubSeq(bytes, 1, 8))
            high == IF signed THEN SignedOf("bigint", SubSeq(bytes, 9, 16))
                    ELSE UnsignedOf("bigint", SubSeq(bytes, 9, 16))
        IN  /\ Len(bytes) = 16
            /\ FromLimbs(high, low) = v
            /\ (arg.reads = 1 /\ op = (IF signed THEN "readInt128" ELSE "readUint128")) =>
                /\ thrown = ""
                /\ decoded = v
                /\ getOffset(reader) = 16

\* a negative value whose limbs both have bits set, written and read back
C19_Witness ==
    /\ Wrote128
    /\ arg.sent[1].value = IntNeg(MkInt("bigint", FALSE, AddMag(Pow2(64), <<1>>)))
    /\ op = "readInt128"
    /\ arg.reads = 1
    /\ decoded = arg.sent[1].value

-----------------------------------------------------------------------------
(* C20.  For each width N in {8, 16, 32, 64} and each in-range value v of  *)
(* the schema uN or iN, serialize emits exactly N/8 bytes whose k-th byte  *)
(* (0-based) is floor((v mod 2^N) / 256^k) mod 256: little-endian, two's   *)
(* complement for negative values.                                         *)

NarrowIntegerTags == {"u8", "u16", "u32", "u64", "i8", "i16", "i32", "i64"}

\* serialize was given a value of the integer type of the schema
IsInRangeIntegerCall ==
    /\ op = "serialize"
    /\ schema.type \in NarrowIntegerTags
    /\ value.k = KindOf(schema.type)
    /\ ~IntLt(value, MinOf(schema.type))
    /\ ~IntGt(value, MaxOf(schema.type))

\* v mod 2^n for -2^n <= v < 2^n
ModPow2(v, n) == IF v.neg THEN IntAdd(MkInt(v.k, FALSE, Pow2(n)), v) ELSE v

C20_LittleEndian ==
    IsInRangeIntegerCall =>
        LET n == WidthOf(schema.type)
            residue == ModPow2(value, n)
        IN  /\ thrown = ""
            /\ Len(bytes) = n \div 8
            /\ \A k \in 0..(n \div 8) - 1 : bytes[k + 1] = Digit(residue.mag, k + 1)

\* a negative value of several bytes that are not all alike
C20_Witness ==
    /\ IsInRangeIntegerCall
    /\ schema.type = "i32"
    /\ value = IntAdd(MinOf("i32"), One("number"))
    /\ bytes = <<1, 0, 0, 128>>

-----------------------------------------------------------------------------
(* C21.  For every vec, set and map schema, serialize emits the number of  *)
(* elements (entries for a map) as a 4-byte little-endian count, followed  *)
(* by that many element encodings (key then value for each map entry), and *)
(* deserialize reads the count and then exactly that many elements or      *)
(* key/value pairs.                                                        *)

ContainerTypes == {"vec", "set", "map"}

\* the number of elements or entries of a collection
ElementCount(v) == IF v.k = "Map" THEN Len(v.entries) ELSE Len(v.items)

\* the encoding of the i-th element or entry of the collection v
ElementBytes(options, v, i) ==
    IF v.k = "Map"
    THEN getBuffer(serialize(Schema(options.keyType, options.keyOptions), v.entries[i].key))
         \o getBuffer(serialize(Schema(options.valueType, options.valueOptions),
                                v.entries[i].val))
    ELSE getBuffer(serialize(Schema(options.elementType, options.elementOptions), v.items[i]))

\* the collection that a schema of the type serializes
IsCollectionOf(type, v) ==
    CASE type = "vec" -> HasLength(v)
      [] type = "set" -> v.k = "Set"
      [] type = "map" -> v.k = "Map"
      [] OTHER -> FALSE

\* the count at the head of the bytes
CountPrefix == UnsignedOf("number", SubSeq(bytes, 1, 4))

\* bytes of one element or entry, for the collections of u8 read from bytes
\* that no serialize call returned
RawUnit == IF schema.type = "map" THEN 2 ELSE 1

C21_CountPrefix ==
    schema.type \in ContainerTypes =>
        /\ (op = "serialize" /\ thrown = "" /\ IsCollectionOf(schema.type, value)) =>
            LET n == ElementCount(value)
            IN  /\ Len(bytes) >= 4
                /\ CountPrefix = Nat2Num(n)
                /\ \E p \in Permutations(1..n) :
                        SubSeq(bytes, 5, Len(bytes))
                            = Concat([i \in 1..n |-> ElementBytes(schema.options, value, p[i])])
        /\ (op \in {"deserialize", "deserializeRaw"} /\ thrown = "") =>
            /\ Len(bytes) >= 4
            /\ IF schema.type = "vec" THEN Nat2Num(ElementCount(decoded)) = CountPrefix
               ELSE ~IntGt(Nat2Num(ElementCount(decoded)), CountPrefix)
        /\ (op = "deserialize" /\ thrown = "") =>
            /\ ElementCount(decoded) = ElementCount(value)
            /\ getOffset(reader) = Len(bytes)
        /\ (op = "deserializeRaw" /\ Len(bytes) >= 4) =>
            IF Len(bytes) >= 4 + MagNat(CountPrefix.mag) * RawUnit
            THEN thrown = "" /\ getOffset(reader) = 4 + MagNat(CountPrefix.mag) * RawUnit
            ELSE thrown # ""

\* a map read of two entries from bytes that hold more than the count says
C21_Witness ==
    /\ schema.type = "map"
    /\ op = "deserializeRaw"
    /\ thrown = ""
    /\ ElementCount(decoded) = 2
    /\ getOffset(reader) = 8
    /\ Len(bytes) > 8

-----------------------------------------------------------------------------
(* C22.  For every schema, every value v of its domain and every strict    *)
(* prefix p of serialize(v), wherever the bytes are cut, deserialize(p)    *)
(* fails with an error and returns no value built from the bytes that were *)
(* present.                                                                *)

C22_TruncatedInput ==
    (op = "deserializePrefix" /\ ValueInDomain) =>
        /\ thrown # ""
        /\ decoded = undefined

-----------------------------------------------------------------------------
(* C23.  The set handler writes its elements, and the map handler its      *)
(* entries, in the iteration (insertion) order of the Set or Map given to  *)
(* serialize: nothing is reordered between the collection and the wire.    *)

C23_IterationOrder ==
    ( /\ op = "serialize"
      /\ schema.type \in {"set", "map"}
      /\ ValueInDomain
      /\ thrown = "" ) =>
        bytes = ModBytes(Nat2Num(ElementCount(value)), 4)
                \o Concat([i \in 1..ElementCount(value) |->
                             ElementBytes(schema.options, value, i)])

-----------------------------------------------------------------------------
(* C24.  NaN is not encodable by any floating-point schema:                *)
(* f32().serialize(NaN) fails with an error exactly as f64().serialize(NaN) *)
(* does, and no serialize call on a schema with a float field emits the    *)
(* bytes of a NaN.                                                         *)

\* the struct given to serialize holds NaN in a float field
HasNaNField ==
    /\ schema.type = "struct"
    /\ value.k = "object"
    /\ \E i \in 1..Len(schema.options.props) :
            /\ schema.options.props[i].val.type \in {"f32", "f64"}
            /\ HasProp(value, schema.options.props[i].name)
            /\ PropGet(value, schema.options.props[i].name) = NaN

C24_NaNRejected ==
    ( /\ op = "serialize"
      /\ \/ schema.type \in {"f32", "f64"} /\ value = NaN
         \/ HasNaNField ) =>
        /\ thrown # ""
        /\ bytes = <<>>

-----------------------------------------------------------------------------
(* Sequences of calls.  Every schema shares the one registry and makes a   *)
(* writer or reader of its own in each call; arg holds the calls made so   *)
(* far, each with its schema, its argument and what it returned or threw.  *)

MaxCalls == 3

CallCases ==
    { Case(b_u8, Num(<<1>>)), Case(b_u8, Num(<<2,5,6>>)), Case(b_string, Str(<<97, 8364>>)),
      Case(b_hashSet(b_u8), SetOf(<<Num(<<2>>), Num(<<1>>)>>)),
      Case(b_vec(b_u16), [k |-> "Uint16Array", items |-> <<Num(<<7>>), Num(<<3,0,0>>)>>]),
      Case(StructSchema, Obj(<<Prop("c", NegNum(<<2>>)), Prop("a", Num(<<1>>)),
                               Prop("b", Str(<<120>>))>>)),
      Case(b_option(b_u8), null) }

NoResult == [bytes |-> <<>>, value |-> undefined]

InitCalls ==
    /\ handlers = LoadedHandlers
    /\ op = "load"
    /\ schema = Schema("unit", null)
    /\ value = undefined
    /\ writer = NoWriter
    /\ thrown = ""
    /\ bytes = <<>>
    /\ reader = NoReader
    /\ decoded = undefined
    /\ arg = <<>>

\* bytes = schema.serialize(value), after the calls made so far
SerializeCall ==
    /\ Len(arg) < MaxCalls
    /\ \E c \in CallCases :
        LET w == serialize(c.schema, c.value)
        IN  /\ op' = "serialize"
            /\ schema' = c.schema
            /\ value' = c.value
            /\ writer' = w
            /\ thrown' = w.err
            /\ bytes' = IF w.err = "" THEN getBuffer(w) ELSE <<>>
            /\ arg' = Append(arg, [op |-> "serialize", schema |-> c.schema, input |-> c.value,
                                   thrown |-> w.err,
                                   result |-> IF w.err = ""
                                              THEN [bytes |-> getBuffer(w), value |-> undefined]
                                              ELSE NoResult])
    /\ UNCHANGED <<handlers, reader, decoded>>

\* decoded = schema.deserialize(bytes), of the bytes some earlier call returned
DeserializeCall ==
    /\ Len(arg) < MaxCalls
    /\ \E i \in 1..Len(arg) :
        /\ arg[i].op = "serialize"
        /\ arg[i].thrown = ""
        /\ LET x == deserialize(arg[i].schema, arg[i].result.bytes)
           IN  /\ op' = "deserialize"
               /\ schema' = arg[i].schema
               /\ bytes' = arg[i].result.bytes
               /\ reader' = x.reader
               /\ thrown' = x.reader.err
               /\ decoded' = IF x.reader.err = "" THEN x.value ELSE undefined
               /\ arg' = Append(arg, [op |-> "deserialize", schema |-> arg[i].schema,
                                      input |-> arg[i].result.bytes,
                                      thrown |-> x.reader.err,
                                      result |-> IF x.reader.err = ""
                                                 THEN [bytes |-> <<>>, value |-> x.value]
                                                 ELSE NoResult])
    /\ UNCHANGED <<handlers, value, writer>>

NextCalls == SerializeCall \/ DeserializeCall

SpecCalls == InitCalls /\ [][NextCalls]_vars

-----------------------------------------------------------------------------
(* C25.  serialize and deserialize are pure: in any sequence of calls on   *)
(* any schemas a call's result depends only on its own (schema, value) or  *)
(* (schema, bytes); two calls with equal arguments return equal results    *)
(* whatever calls ran in between, every call starts from a new writer or   *)
(* reader at offset 0, and neither the schema's options nor the argument   *)
(* is modified.                                                            *)

SameCall(x, y) == x.op = y.op /\ x.schema = y.schema /\ x.input = y.input

-----------------------------------------------------------------------------
(* C26.  The bytes of a serialized set or map depend only on its contents  *)
(* and not on insertion order: two Sets with the same elements, and two    *)
(* Maps with the same key/value pairs, serialize to the same bytes, for    *)
(* every element, key and value type (numbers, strings that hold commas,   *)
(* structs and other composite values included).                           *)

\* the collection v with its elements inserted in the order p
Reinserted(v, p) ==
    IF v.k = "Map" THEN MapOf([i \in 1..Len(p) |-> v.entries[p[i]]])
    ELSE SetOf([i \in 1..Len(p) |-> v.items[p[i]]])

C26_OrderIndependent ==
    ( /\ op = "serialize"
      /\ schema.type \in {"set", "map"}
      /\ ValueInDomain
      /\ thrown = "" ) =>
        \A p \in Permutations(1..ElementCount(value)) :
            LET other == serialize(schema, Reinserted(value, p))
            IN  other.err = "" /\ getBuffer(other) = bytes

-----------------------------------------------------------------------------
(* C27.  For every schema and every value v of its domain the read handler *)
(* consumes exactly the bytes the write handler produced: after            *)
(* deserialize has read serialize(v) the reader's offset is the length of  *)
(* serialize(v).                                                           *)

C27_ConsumesAll ==
    (op = "deserialize" /\ ValueInDomain) =>
        /\ thrown = ""
        /\ getOffset(reader) = Len(bytes)

-----------------------------------------------------------------------------
(* C28.  Every BinaryWriter write terminates, for every initial capacity   *)
(* the constructor accepts (0 included) and every number of bytes to       *)
(* append: the doubling loop of ensureCapacity reaches a capacity of at    *)
(* least offset + additionalBytes after finitely many iterations.          *)

\* the call in the state is a write that came back, with a result or an exception
WriteReturned == op \in WriterMethods => writer.err # DivergesMsg

C28_WriteTerminates ==
    /\ WriteReturned
    /\ (op \in WriterMethods /\ thrown = "") => Len(writer.buffer) >= writer.offset

-----------------------------------------------------------------------------
(* C29.  For every enum schema b.enum accepts, whatever the number of      *)
(* declared variants (more than 256 included), the byte written for a      *)
(* variant is its declared index, not the index modulo 256, and two        *)
(* distinct variants never serialize to the same discriminator byte.       *)

\* the byte writeUint8 leaves for an index
DiscriminatorOf(index) == getBuffer(writeUint8(NewWriter(1), Nat2Num(index)))[1]

C29_Discriminator ==
    ( /\ op = "serialize"
      /\ schema.type = "enum"
      /\ ValueInDomain ) =>
        LET variants == schema.options.variants
            mine == variants[PositionOf(schema, value.props[1].name) + 1]
        IN  /\ thrown = ""
            /\ bytes[1] = mine.index
            /\ \A i \in 1..Len(variants) :
                    variants[i].name # mine.name => DiscriminatorOf(variants[i].index) # bytes[1]

-----------------------------------------------------------------------------
(* TypeParser.  The input is the sequence of its characters; a token is    *)
(* [type] or, for an identifier, [type, value]; a parse function returns   *)
(* [node, current, err], current counting the tokens consumed.             *)

MaxInputLen == 4

UnexpectedEndMsg == "Unexpected end of input"
UnexpectedEndInArgsMsg == "Unexpected end of input in generic args"
UnexpectedEndInTupleMsg == "Unexpected end of input in tuple"
UnexpectedTokenMsg == "Unexpected token"
UnexpectedTokenInArgsMsg == "Unexpected token in generic args"
UnexpectedTokenInTupleMsg == "Unexpected token in tuple"
UnexpectedCharacterMsg == "Unexpected character"

Whitespace == {" "}
SpecialTokens ==
    [c \in {"<", ">", "(", ")", ","} |->
        CASE c = "<" -> "leftAngle" [] c = ">" -> "rightAngle"
          [] c = "(" -> "leftParen" [] c = ")" -> "rightParen" [] c = "," -> "comma"]
IdentifierChars == {"a", "8"}

RECURSIVE tokenize_from(_, _, _, _)
\* ident is the identifier being read, "" when none is
tokenize_from(input, current, tokens, ident) ==
    LET flushed == IF ident = "" THEN tokens
                   ELSE Append(tokens, [type |-> "identifier", value |-> ident])
    IN  IF current > Len(input) THEN [tokens |-> flushed, err |-> ""]
        ELSE LET char == input[current]
             IN  IF char \in IdentifierChars
                 THEN tokenize_from(input, current + 1, tokens, ident \o char)
                 ELSE IF char \in Whitespace
                 THEN tokenize_from(input, current + 1, flushed, "")
                 ELSE IF char \in DOMAIN SpecialTokens
                 THEN tokenize_from(input, current + 1,
                                    Append(flushed, [type |-> SpecialTokens[char]]), "")
                 ELSE [tokens |-> <<>>, err |-> UnexpectedCharacterMsg]

tokenize(input) == tokenize_from(input, 1, <<>>, "")

Parsed(node, current) == [node |-> node, current |-> current, err |-> ""]
ParseError(msg, current) == [node |-> undefined, current |-> current, err |-> msg]

\* this.tokens[this.current]?.type, current counting from 0
TokenTypeAt(tokens, current) ==
    IF current < Len(tokens) THEN tokens[current + 1].type ELSE "undefined"

RECURSIVE parseType(_, _)
RECURSIVE parseGenericArgs(_, _, _)
RECURSIVE parseTupleElements(_, _, _)

\* the while loop of parseGenericArgs, args holding what it has pushed
parseGenericArgs(tokens, current, args) ==
    IF ~(current < Len(tokens)) THEN Parsed(args, current)
    ELSE LET argType == parseType(tokens, current)
             next == TokenTypeAt(tokens, argType.current)
         IN  IF argType.err # "" THEN argType
             ELSE IF next = "undefined" THEN ParseError(UnexpectedEndInArgsMsg, argType.current)
             ELSE IF next = "rightAngle" THEN Parsed(Append(args, argType.node), argType.current + 1)
             ELSE IF next = "comma"
             THEN parseGenericArgs(tokens, argType.current + 1, Append(args, argType.node))
             ELSE ParseError(UnexpectedTokenInArgsMsg, argType.current)

\* the while loop of parseTupleElements
parseTupleElements(tokens, current, elements) ==
    IF ~(current < Len(tokens)) THEN Parsed(elements, current)
    ELSE LET element == parseType(tokens, current)
             next == TokenTypeAt(tokens, element.current)
         IN  IF element.err # "" THEN element
             ELSE IF next = "undefined" THEN ParseError(UnexpectedEndInTupleMsg, element.current)
             ELSE IF next = "rightParen"
             THEN Parsed(Append(elements, element.node), element.current + 1)
             ELSE IF next = "comma"
             THEN parseTupleElements(tokens, element.current + 1,
                                     Append(elements, element.node))
             ELSE ParseError(UnexpectedTokenInTupleMsg, element.current)

parseType(tokens, current) ==
    LET token == TokenTypeAt(tokens, current)
    IN  IF token = "undefined" THEN ParseError(UnexpectedEndMsg, current)
        ELSE IF token = "identifier"
        THEN IF TokenTypeAt(tokens, current + 1) = "leftAngle"
             THEN LET args == parseGenericArgs(tokens, current + 2, <<>>)
                  IN  IF args.err # "" THEN args
                      ELSE Parsed([type |-> "generic", base |-> tokens[current + 1].value,
                                   args |-> args.node], args.current)
             ELSE Parsed([type |-> "primitive", name |-> tokens[current + 1].value],
                         current + 1)
        ELSE IF token = "leftParen"
        THEN LET elements == parseTupleElements(tokens, current + 1, <<>>)
             IN  IF elements.err # "" THEN elements
                 ELSE Parsed([type |-> "tuple", elements |-> elements.node], elements.current)
        ELSE ParseError(UnexpectedTokenMsg, current)

\* TypeParser.parse(typeStr)
parse(typeStr) ==
    LET t == tokenize(typeStr)
    IN  IF t.err # "" THEN ParseError(t.err, 0) ELSE parseType(t.tokens, 0)

InputChars == IdentifierChars \cup Whitespace \cup DOMAIN SpecialTokens \cup {"#"}

InitParser ==
    /\ handlers = LoadedHandlers
    /\ op = "new TypeParser"
    /\ schema = Schema("unit", null)
    /\ value = <<>>
    /\ writer = NoWriter
    /\ thrown = ""
    /\ bytes = <<>>
    /\ reader = NoReader
    /\ decoded = undefined
    /\ arg = [tokens |-> <<>>, current |-> 0]

\* decoded = new TypeParser().parse(value)
Parse ==
    /\ op = "new TypeParser"
    /\ \E typeStr \in SeqsUpTo(InputChars, MaxInputLen) :
        LET t == tokenize(typeStr)
            x == parse(typeStr)
        IN  /\ op' = "parse"
            /\ value' = typeStr
            /\ thrown' = x.err
            /\ decoded' = x.node
            /\ arg' = [tokens |-> t.tokens, current |-> x.current]
    /\ UNCHANGED <<handlers, schema, writer, bytes, reader>>

NextParser == Parse

SpecParser == InitParser /\ [][NextParser]_vars

-----------------------------------------------------------------------------
(* C30.  TypeParser.parse fails with an error on every input in which an   *)
(* opening '<' or '(' is not closed by its matching '>' or ')' before the  *)
(* tokens end, inputs that end right after a comma inside generic          *)
(* arguments or tuple elements included; it returns no type node for such  *)
(* an unterminated input.                                                  *)

Closer(c) == IF c = "<" THEN ">" ELSE ")"

RECURSIVE OpenAtEnd(_, _, _)
\* the opening characters of input[i..] and of open that nothing closes:
\* a closing character closes the last opening one when it matches it
OpenAtEnd(input, i, open) ==
    IF i > Len(input) THEN open
    ELSE IF input[i] \in {"<", "("} THEN OpenAtEnd(input, i + 1, Append(open, input[i]))
    ELSE IF open # <<>> /\ input[i] = Closer(open[Len(open)])
    THEN OpenAtEnd(input, i + 1, SubSeq(open, 1, Len(open) - 1))
    ELSE OpenAtEnd(input, i + 1, open)

IsUnterminated(input) == OpenAtEnd(input, 1, <<>>) # <<>>

C30_Unterminated ==
    (op = "parse" /\ IsUnterminated(value)) =>
        /\ thrown # ""
        /\ decoded = undefined

=============================================================================
